---- MODULE Spec2Model ----
(***************************************************************************)
(* Model of netflix-remote-control.                                        *)
(*                                                                         *)
(*   - the in-page navigation agent window.NetflixNav                      *)
(*     (src/netflix_control/js_nav.py, NAV_CONTROLLER_SCRIPT)              *)
(*   - the session vault AuthManager (src/netflix_control/auth.py)         *)
(*                                                                         *)
(* The agent object is the record  nav ; every method of the object is an  *)
(* operator from the object (and the rendered page) to the new object, so  *)
(* that a handler that calls other methods is the composition of their     *)
(* operators.  The rendered page is the variable  page : the list of DOM   *)
(* nodes with the rectangles getBoundingClientRect() returns for them.     *)
(***************************************************************************)
EXTENDS Integers, Sequences, FiniteSets, TLC

(***************************************************************************)
(* Generic helpers                                                         *)
(***************************************************************************)
Min(a, b) == IF a < b THEN a ELSE b

Abs(a) == IF a < 0 THEN -a ELSE a

Last(s) == s[Len(s)]

\* Array.prototype.flat() on an array of arrays
RECURSIVE Flat(_)
Flat(ss) == IF ss = <<>> THEN <<>> ELSE Head(ss) \o Flat(Tail(ss))

\* Array.prototype.sort((a, b) => a.x - b.x): a stable sort on the key x.
\* InsertByX puts e behind every item whose x is not larger (stability).
InsertByX(s, e) ==
    LET k == Cardinality({i \in 1..Len(s) : s[i].x <= e.x})
    IN  SubSeq(s, 1, k) \o <<e>> \o SubSeq(s, k + 1, Len(s))

RECURSIVE SortByX(_)
SortByX(s) ==
    IF Len(s) <= 1 THEN s
    ELSE InsertByX(SortByX(SubSeq(s, 1, Len(s) - 1)), Last(s))

\* Array.prototype.sort((a, b) => a.y - b.y): a stable sort on the key y.
InsertByY(s, e) ==
    LET k == Cardinality({i \in 1..Len(s) : s[i].y <= e.y})
    IN  SubSeq(s, 1, k) \o <<e>> \o SubSeq(s, k + 1, Len(s))

RECURSIVE SortByY(_)
SortByY(s) ==
    IF Len(s) <= 1 THEN s
    ELSE InsertByY(SortByY(SubSeq(s, 1, Len(s) - 1)), Last(s))

\* sort((a, b) => a.y - b.y || a.x - b.x): stable, lexicographic on (y, x);
\* a stable sort on x followed by a stable sort on y gives the same order.
SortByYX(s) == SortByY(SortByX(s))

(***************************************************************************)
(* The rendered page                                                       *)
(*                                                                         *)
(* A node is a DOM element: id (its position in document order), cls (the  *)
(* keys of SELECTORS, or "option", whose selector the element matches),    *)
(* its rectangle (left, top, w, h; already rounded) and parent, the id of  *)
(* the nearest ancestor that is itself a node of the list (0: none).       *)
(* The nodes with a modal class stand for descendants of the modal root.   *)
(***************************************************************************)
Node(id, cls, left, top, w, h, parent) ==
    [id |-> id, cls |-> cls, left |-> left, top |-> top, w |-> w, h |-> h,
     parent |-> parent]

\* the item object the agent stores for an element: { element, rect, y, x }
Item(n) == [element |-> n.id, x |-> n.left, y |-> n.top]

\* els.map(el => ({ element: el, rect: el.getBoundingClientRect() }))
Items(nodes) == [i \in 1..Len(nodes) |-> Item(nodes[i])]

\* this.zones.map(zone => zone.elements)
ZoneElements(zs) == [i \in 1..Len(zs) |-> zs[i].elements]

\* url: which branch of the url tests of discover() the location takes
\* gate: a profile gate node exists; modal: .previewModal--container exists
\* dropdown: "none" (no listbox node), "hidden" (offsetParent === null),
\*           "visible"
MkPage(url, gate, modal, dropdown, innerHeight, innerWidth, nodes) ==
    [url |-> url, gate |-> gate, modal |-> modal, dropdown |-> dropdown,
     innerHeight |-> innerHeight, innerWidth |-> innerWidth, nodes |-> nodes]

\* browse page: two navigation tabs, a row of three tiles, a row of two
\* tiles; node 6 is nested in tile 3, node 7 has no area, node 8 is below
\* the viewport, node 3 matches two selectors of the search context
PageBrowse ==
    MkPage("browse", FALSE, FALSE, "none", 800, 1200,
      << Node(1, {"navItems"}, 10, 20, 60, 20, 0),
         Node(2, {"navItems"}, 90, 21, 60, 20, 0),
         Node(3, {"tiles", "buttons"}, 20, 200, 100, 60, 0),
         Node(4, {"tiles"}, 260, 204, 100, 60, 0),
         Node(5, {"tiles"}, 140, 198, 100, 60, 0),
         Node(6, {"tiles"}, 25, 205, 50, 30, 3),
         Node(7, {"tiles"}, 400, 200, 0, 0, 0),
         Node(8, {"tiles"}, 20, 900, 100, 60, 0),
         Node(9, {"tiles"}, 140, 400, 100, 60, 0),
         Node(10, {"tiles"}, 20, 402, 100, 60, 0) >>)

\* the same page after a scroll / lazy load left one row of one tile
PageBrowseShort ==
    MkPage("browse", FALSE, FALSE, "none", 800, 1200,
      << Node(1, {"tiles"}, 20, 300, 100, 60, 0) >>)

\* a page with no interactive element
PageEmpty == MkPage("browse", FALSE, FALSE, "none", 800, 1200, << >>)

\* profile gate
PageGate ==
    MkPage("browse", TRUE, FALSE, "none", 800, 1200,
      << Node(1, {"profiles"}, 100, 300, 120, 120, 0),
         Node(2, {"profiles"}, 300, 300, 120, 120, 0),
         Node(3, {"tiles"}, 20, 500, 100, 60, 0) >>)

\* player
PageWatch ==
    MkPage("watch", FALSE, FALSE, "none", 800, 1200,
      << Node(1, {"playerControls"}, 40, 700, 40, 40, 0),
         Node(2, {"playerControls"}, 100, 700, 40, 40, 0),
         Node(3, {"playerControls"}, 160, 700, 40, 40, 0) >>)

\* search results: tiles and buttons
PageSearch ==
    MkPage("search", FALSE, FALSE, "none", 800, 1200,
      << Node(1, {"buttons"}, 500, 30, 40, 40, 0),
         Node(2, {"tiles"}, 20, 200, 100, 60, 0),
         Node(3, {"tiles"}, 140, 200, 100, 60, 0) >>)

\* the clustering scenario: y = 10, 12, 95, 98, 210, viewport 500 high
\* (ROW_THRESHOLD = 50)
PageCluster ==
    MkPage("other", FALSE, FALSE, "none", 500, 1200,
      << Node(1, {"tiles"}, 20, 10, 100, 60, 0),
         Node(2, {"tiles"}, 140, 12, 100, 60, 0),
         Node(3, {"buttons"}, 140, 95, 100, 60, 0),
         Node(4, {"profiles"}, 20, 98, 100, 60, 0),
         Node(5, {"tiles"}, 20, 210, 100, 60, 0) >>)

\* the zone scenario: a modal with three header buttons and five episodes
PageModalScenario ==
    MkPage("browse", FALSE, TRUE, "none", 800, 1200,
      << Node(1, {"modalHeaderButtons"}, 200, 100, 40, 40, 0),
         Node(2, {"modalHeaderButtons"}, 100, 100, 40, 40, 0),
         Node(3, {"modalHeaderButtons"}, 300, 100, 40, 40, 0),
         Node(4, {"episodes"}, 100, 300, 600, 80, 0),
         Node(5, {"episodes"}, 100, 400, 600, 80, 0),
         Node(6, {"episodes"}, 100, 500, 600, 80, 0),
         Node(7, {"episodes"}, 100, 600, 600, 80, 0),
         Node(8, {"episodes"}, 100, 700, 600, 80, 0) >>)

\* a modal with all four zones; the listbox exists but is hidden
PageModalFull ==
    MkPage("browse", FALSE, TRUE, "hidden", 800, 1200,
      << Node(1, {"modalHeaderButtons"}, 100, 100, 40, 40, 0),
         Node(2, {"modalHeaderButtons"}, 200, 100, 40, 40, 0),
         Node(3, {"seasonSelector"}, 500, 200, 120, 30, 0),
         Node(4, {"seasonSelector"}, 640, 200, 120, 30, 0),
         Node(5, {"episodes"}, 100, 400, 600, 80, 0),
         Node(6, {"episodes"}, 100, 300, 600, 80, 0),
         Node(7, {"moreLikeThis"}, 300, 900, 100, 60, 0),
         Node(8, {"moreLikeThis"}, 100, 900, 100, 60, 0),
         Node(9, {"moreLikeThis"}, 200, 900, 100, 60, 0),
         Node(10, {"option"}, 500, 240, 0, 0, 0) >>)

\* the same modal with the season dropdown open: three visible options
PageDropdown ==
    MkPage("browse", FALSE, TRUE, "visible", 800, 1200,
      << Node(1, {"modalHeaderButtons"}, 100, 100, 40, 40, 0),
         Node(2, {"modalHeaderButtons"}, 200, 100, 40, 40, 0),
         Node(3, {"seasonSelector"}, 500, 200, 120, 30, 0),
         Node(5, {"episodes"}, 100, 400, 600, 80, 0),
         Node(6, {"episodes"}, 100, 300, 600, 80, 0),
         Node(10, {"option"}, 500, 240, 120, 30, 0),
         Node(11, {"option"}, 500, 270, 120, 30, 0),
         Node(12, {"option"}, 500, 300, 120, 30, 0) >>)

\* a visible listbox whose options have no area yet, in front of a header
PageDropdownNoOptions ==
    MkPage("browse", FALSE, TRUE, "visible", 800, 1200,
      << Node(1, {"modalHeaderButtons"}, 100, 100, 40, 40, 0),
         Node(10, {"option"}, 500, 240, 0, 0, 0) >>)

\* a modal root that holds no zone element
PageModalEmpty == MkPage("browse", FALSE, TRUE, "none", 800, 1200, << >>)

Pages ==
    { PageBrowse, PageBrowseShort, PageEmpty, PageGate, PageWatch, PageSearch,
      PageCluster, PageModalScenario, PageModalFull, PageDropdown,
      PageDropdownNoOptions, PageModalEmpty }

Directions == {"up", "down", "left", "right"}

(***************************************************************************)
(* window.NetflixNav: the object literal                                   *)
(*                                                                         *)
(* Indices (currentRow, currentCol, currentZone) are the 0-based indices   *)
(* of the script; rows and zones are sequences, so rows[currentRow] of the *)
(* script is rows[currentRow + 1] here.  focusedElement = 0 is null.       *)
(* overlayShown is overlay.style.display = 'block'; overlayHideTimeout is  *)
(* TRUE while the hide timer is pending.  clickTimers are the pending       *)
(* 100 ms timers of select, oldest first, each with the elementToClick its *)
(* closure holds (and, as history, the element focused at the call);       *)
(* discoverTimers is the number of pending 500 ms timers set by a click.   *)
(* selects, clicks and rediscovers are history: the successful select      *)
(* calls, the clicks dispatched and the discover passes run by a timer of  *)
(* select since no timer of select was last pending.                       *)
(***************************************************************************)
NetflixNav ==
    [rows |-> << >>, zones |-> << >>,
     currentRow |-> 0, currentCol |-> 0, currentZone |-> 0,
     inModalMode |-> FALSE, dropdownOpen |-> FALSE, inPlayerMode |-> FALSE,
     focusedElement |-> 0, overlayShown |-> FALSE,
     overlayHideTimeout |-> FALSE,
     clickTimers |-> << >>, discoverTimers |-> 0,
     selects |-> 0, clicks |-> 0, rediscovers |-> 0]

OVERLAY_HIDE_DELAY == 5000

\* this.elements = this.rows.flat()
elements(n) == Flat(n.rows)

hideFocus(n) ==
    [n EXCEPT !.focusedElement = 0, !.overlayShown = FALSE,
              !.overlayHideTimeout = FALSE]

\* clearTimeout of the pending timer, and a new timer only in player mode
scheduleOverlayHide(n) == [n EXCEPT !.overlayHideTimeout = n.inPlayerMode]

updateFocus(n) ==
    IF Len(n.rows) = 0 \/ n.currentRow >= Len(n.rows)
    THEN hideFocus(n)
    ELSE IF n.currentCol >= Len(n.rows[n.currentRow + 1])
         THEN hideFocus(n)
         ELSE scheduleOverlayHide(
                [n EXCEPT !.focusedElement =
                              n.rows[n.currentRow + 1][n.currentCol + 1].element,
                          !.overlayShown = TRUE])

\* discover(): this.elements = []; this.rows = []
ClearRows_Skip(n) == n

ClearRows(n) == [n EXCEPT !.rows = << >>]

\* discoverModal(): this.zones = []; this.inModalMode = true
ClearZones(n) == [n EXCEPT !.zones = << >>, !.inModalMode = TRUE]

\* one zone object { type, elements, layout }
Zone(type, els, layout) == [type |-> type, elements |-> els, layout |-> layout]

\* modal.querySelectorAll(selector), in document order
QueryAll(p, cls) == SelectSeq(p.nodes, LAMBDA nd : cls \in nd.cls)

discoverModal(n, p) ==
    LET options == SelectSeq(QueryAll(p, "option"),
                             LAMBDA nd : nd.w > 0 /\ nd.h > 0)
        visibleHeaderButtons ==
            SelectSeq(QueryAll(p, "modalHeaderButtons"),
                      LAMBDA nd : nd.w > 10 /\ nd.h > 10 /\ nd.top < p.innerHeight)
        seasonToggle == QueryAll(p, "seasonSelector")
        visibleEpisodes ==
            SelectSeq(QueryAll(p, "episodes"), LAMBDA nd : nd.w > 10 /\ nd.h > 10)
        visibleSimilar ==
            SelectSeq(QueryAll(p, "moreLikeThis"), LAMBDA nd : nd.w > 10 /\ nd.h > 10)
        header == IF Len(visibleHeaderButtons) > 0
                  THEN << Zone("header", SortByX(Items(visibleHeaderButtons)),
                               "horizontal") >>
                  ELSE << >>
        season == IF Len(seasonToggle) > 0
                     /\ seasonToggle[1].w > 0 /\ seasonToggle[1].h > 0
                  THEN << Zone("season", << Item(seasonToggle[1]) >>, "single") >>
                  ELSE << >>
        episodes == IF Len(visibleEpisodes) > 0
                    THEN << Zone("episodes", SortByY(Items(visibleEpisodes)),
                                 "vertical") >>
                    ELSE << >>
        similar == IF Len(visibleSimilar) > 0
                   THEN << Zone("similar", SortByX(Items(visibleSimilar)),
                                "horizontal") >>
                   ELSE << >>
        n0 == ClearZones(n)
        \* this.zones.push(...) for every zone found
        zs == n0.zones \o header \o season \o episodes \o similar
        cz == IF n.currentZone >= Len(zs) THEN 0 ELSE n.currentZone
        cc == IF Len(zs) > 0 /\ n.currentCol >= Len(zs[cz + 1].elements)
              THEN 0 ELSE n.currentCol
    IN  IF p.dropdown = "visible" /\ Len(options) > 0
        THEN \* the dropdown-only pass returns before the position is reset
             [n0 EXCEPT !.dropdownOpen = TRUE,
                        !.zones = Append(n0.zones,
                                         Zone("dropdown", Items(options),
                                              "vertical"))]
        ELSE [n0 EXCEPT !.dropdownOpen = (p.dropdown = "visible"),
                        !.zones = zs, !.currentZone = cz, !.currentCol = cc]

\* the selector list discover() picks from the location and the profile gate
ContextSelectors(p) ==
    CASE p.url = "browse" ->
            IF p.gate THEN << "profiles" >> ELSE << "tiles", "navItems" >>
      [] p.url = "watch" -> << "playerControls" >>
      [] p.url = "search" -> << "tiles", "buttons" >>
      [] OTHER -> << "tiles", "profiles", "buttons" >>

\* the visibility test of discover()
Visible(nd, p) ==
    /\ nd.w > 10 /\ nd.h > 10
    /\ nd.top < p.innerHeight /\ nd.top + nd.h > 0
    /\ nd.left < p.innerWidth /\ nd.left + nd.w > 0

\* allElements: per selector, in document order, the visible elements no
\* earlier selector has put into seenElements
AllElements(p) ==
    LET sel == ContextSelectors(p)
    IN  Flat([i \in 1..Len(sel) |->
                SelectSeq(p.nodes,
                          LAMBDA nd : /\ sel[i] \in nd.cls
                                      /\ Visible(nd, p)
                                      /\ \A j \in 1..(i - 1) : sel[j] \notin nd.cls)])

\* the walk up parentElement: some ancestor is in seenElements
RECURSIVE HasSeenAncestor(_, _, _)
HasSeenAncestor(nd, seen, p) ==
    IF nd.parent = 0 THEN FALSE
    ELSE IF nd.parent \in seen THEN TRUE
    ELSE LET ps == SelectSeq(p.nodes, LAMBDA m : m.id = nd.parent)
         IN  IF ps = << >> THEN FALSE ELSE HasSeenAncestor(ps[1], seen, p)

FilteredElements(p) ==
    LET all == AllElements(p)
        seen == {all[i].id : i \in 1..Len(all)}
    IN  Items(SelectSeq(all, LAMBDA nd : ~HasSeenAncestor(nd, seen, p)))

\* ROW_THRESHOLD = Math.min(window.innerHeight * 0.1, 80), kept times ten
\* so that the comparison stays in the integers
ROW_THRESHOLD_X10(innerHeight) == Min(innerHeight, 800)

SENTINEL_ROW_Y == -1000

\* the forEach sweep over the sorted elements: acc are the finished rows,
\* cur is currentRowElements, curY is currentRowY
RECURSIVE Sweep(_, _, _, _, _)
Sweep(items, acc, cur, curY, thr10) ==
    IF items = << >>
    THEN IF Len(cur) > 0 THEN Append(acc, SortByX(cur)) ELSE acc
    ELSE LET item == Head(items)
         IN  IF 10 * Abs(item.y - curY) > thr10
             THEN Sweep(Tail(items),
                        IF Len(cur) > 0 THEN Append(acc, SortByX(cur)) ELSE acc,
                        << item >>, item.y, thr10)
             ELSE Sweep(Tail(items), acc, Append(cur, item), curY, thr10)

\* row grouping of discover(): sort by (y, x), sweep; the rows are pushed
\* onto this.rows (rows0)
GroupRows(rows0, items, innerHeight) ==
    Sweep(SortByYX(items), rows0, << >>, SENTINEL_ROW_Y,
          ROW_THRESHOLD_X10(innerHeight))

\* discover() moving an index that is past the end to the last index
discover_ClampToLast(n, p) ==
    IF p.modal
    THEN LET m == discoverModal(ClearRows(n), p)
         IN  updateFocus([m EXCEPT !.rows = ZoneElements(m.zones),
                                   !.currentRow = m.currentZone])
    ELSE LET rs == GroupRows(ClearRows(n).rows, FilteredElements(p), p.innerHeight)
             cr == IF n.currentRow >= Len(rs) /\ Len(rs) > 0
                   THEN Len(rs) - 1 ELSE n.currentRow
             cc == IF Len(rs) > 0 /\ n.currentCol >= Len(rs[cr + 1])
                   THEN Len(rs[cr + 1]) - 1 ELSE n.currentCol
         IN  updateFocus([n EXCEPT !.rows = rs, !.zones = << >>,
                                   !.inModalMode = FALSE,
                                   !.inPlayerMode = (p.url = "watch"),
                                   !.currentRow = cr, !.currentCol = cc])

discover(n, p) ==
    IF p.modal
    THEN LET m == discoverModal(ClearRows(n), p)
         IN  updateFocus([m EXCEPT !.rows = ZoneElements(m.zones),
                                   !.currentRow = m.currentZone])
    ELSE LET rs == GroupRows(ClearRows(n).rows, FilteredElements(p), p.innerHeight)
             cr == IF n.currentRow >= Len(rs) THEN 0 ELSE n.currentRow
             cc == IF Len(rs) > 0 /\ n.currentCol >= Len(rs[cr + 1])
                   THEN 0 ELSE n.currentCol
         IN  updateFocus([n EXCEPT !.rows = rs, !.zones = << >>,
                                   !.inModalMode = FALSE,
                                   !.inPlayerMode = (p.url = "watch"),
                                   !.currentRow = cr, !.currentCol = cc])

\* the object discover() returns
discoverResult(n) ==
    [success |-> TRUE, elementCount |-> Len(elements(n)),
     count |-> IF n.inModalMode THEN Len(n.zones) ELSE Len(n.rows),
     inModalMode |-> n.inModalMode]

(***************************************************************************)
(* navigate: every navigate operator gives [nav, res]; res is the object   *)
(* returned to the caller, or threw = TRUE when the script throws.         *)
(***************************************************************************)
Returned(n, success, moved, message) ==
    [nav |-> n,
     res |-> [success |-> success, moved |-> moved, threw |-> FALSE,
              message |-> message]]

\* an uncaught TypeError: the call ends where it stands
Thrown(n) ==
    [nav |-> n,
     res |-> [success |-> FALSE, moved |-> FALSE, threw |-> TRUE,
              message |-> "TypeError"]]

navigateDropdown(n, direction) ==
    LET zone == n.zones[1]
        prevCol == n.currentCol
        col == CASE direction = "up" ->
                      IF n.currentCol > 0 THEN n.currentCol - 1 ELSE n.currentCol
                 [] direction = "down" ->
                      IF n.currentCol < Len(zone.elements) - 1
                      THEN n.currentCol + 1 ELSE n.currentCol
                 [] OTHER -> n.currentCol
    IN  Returned(updateFocus([n EXCEPT !.currentCol = col, !.currentRow = 0]),
                 TRUE, prevCol # col, "")

\* ModalMove with a wrap from the end of the last zone to the first zone
ModalMove_Wrap(n, zone, direction) ==
    LET z == n.currentZone
        c == n.currentCol
        lenAt(k) == Len(n.zones[k + 1].elements)
    IN  CASE direction = "up" ->
               IF c > 0 THEN << z, c - 1 >>
               ELSE IF z > 0 THEN << z - 1, lenAt(z - 1) - 1 >> ELSE << z, c >>
          [] direction = "down" ->
               IF c < Len(zone.elements) - 1 THEN << z, c + 1 >>
               ELSE IF z < Len(n.zones) - 1 THEN << z + 1, 0 >> ELSE << 0, 0 >>
          [] direction = "left" -> IF c > 0 THEN << z, c - 1 >> ELSE << z, c >>
          [] direction = "right" ->
               IF c < Len(zone.elements) - 1 THEN << z, c + 1 >> ELSE << z, c >>

\* ModalMove entering the next zone at its last element
ModalMove_EnterAtEnd(n, zone, direction) ==
    LET z == n.currentZone
        c == n.currentCol
        lenAt(k) == Len(n.zones[k + 1].elements)
    IN  CASE direction = "up" ->
               IF z > 0 THEN << z - 1, lenAt(z - 1) - 1 >> ELSE << z, c >>
          [] direction = "down" ->
               IF z < Len(n.zones) - 1 THEN << z + 1, lenAt(z + 1) - 1 >>
               ELSE << z, c >>
          [] direction = "left" -> IF c > 0 THEN << z, c - 1 >> ELSE << z, c >>
          [] direction = "right" ->
               IF c < Len(zone.elements) - 1 THEN << z, c + 1 >> ELSE << z, c >>

\* the switch of navigateModal: the new (currentZone, currentCol)
ModalMove(n, zone, direction) ==
    LET z == n.currentZone
        c == n.currentCol
        layout == zone.layout
        lenAt(k) == Len(n.zones[k + 1].elements)
    IN  CASE direction = "up" ->
               IF layout = "vertical"
               THEN IF c > 0 THEN << z, c - 1 >>
                    ELSE IF z > 0 THEN << z - 1, lenAt(z - 1) - 1 >>
                    ELSE << z, c >>
               ELSE IF z > 0 THEN << z - 1, Min(c, lenAt(z - 1) - 1) >>
                    ELSE << z, c >>
          [] direction = "down" ->
               IF layout = "vertical"
               THEN IF c < Len(zone.elements) - 1 THEN << z, c + 1 >>
                    ELSE IF z < Len(n.zones) - 1 THEN << z + 1, 0 >>
                    ELSE << z, c >>
               ELSE IF z < Len(n.zones) - 1
                    THEN << z + 1, Min(c, lenAt(z + 1) - 1) >>
                    ELSE << z, c >>
          [] direction = "left" ->
               IF layout \in {"horizontal", "single"} /\ c > 0
               THEN << z, c - 1 >> ELSE << z, c >>
          [] direction = "right" ->
               IF layout \in {"horizontal", "single"} /\ c < Len(zone.elements) - 1
               THEN << z, c + 1 >> ELSE << z, c >>

navigateModal(n, direction) ==
    IF Len(n.zones) = 0 THEN Returned(n, FALSE, FALSE, "No zones found")
    ELSE IF n.currentZone >= Len(n.zones)
    THEN \* zone is undefined and zone.layout throws
         Thrown(n)
    ELSE LET zone == n.zones[n.currentZone + 1]
         IN  IF n.dropdownOpen /\ zone.type = "dropdown"
             THEN navigateDropdown(n, direction)
             ELSE IF direction \notin Directions
             THEN Returned(n, FALSE, FALSE, "Invalid direction")
             ELSE LET to == ModalMove(n, zone, direction)
                      moved == (n.currentZone # to[1] \/ n.currentCol # to[2])
                  IN  Returned(updateFocus([n EXCEPT !.currentZone = to[1],
                                                     !.currentCol = to[2],
                                                     !.currentRow = to[1]]),
                               TRUE, moved, "")

\* StandardMove without the column clamp on a row change
StandardMove_NoClamp(n, direction) ==
    LET r == n.currentRow
        c == n.currentCol
    IN  CASE direction = "up" -> IF r > 0 THEN << r - 1, c >> ELSE << r, c >>
          [] direction = "down" ->
               IF r < Len(n.rows) - 1 THEN << r + 1, c >> ELSE << r, c >>
          [] direction = "left" -> IF c > 0 THEN << r, c - 1 >> ELSE << r, c >>
          [] direction = "right" ->
               IF c < Len(n.rows[r + 1]) - 1 THEN << r, c + 1 >> ELSE << r, c >>

\* the switch of navigateStandard: the new (currentRow, currentCol)
StandardMove(n, direction) ==
    LET r == n.currentRow
        c == n.currentCol
        rowLen(k) == Len(n.rows[k + 1])
    IN  CASE direction = "up" ->
               IF r > 0 THEN << r - 1, Min(c, rowLen(r - 1) - 1) >> ELSE << r, c >>
          [] direction = "down" ->
               IF r < Len(n.rows) - 1
               THEN << r + 1, Min(c, rowLen(r + 1) - 1) >> ELSE << r, c >>
          [] direction = "left" ->
               IF c > 0 THEN << r, c - 1 >> ELSE << r, c >>
          [] direction = "right" ->
               IF c < rowLen(r) - 1 THEN << r, c + 1 >> ELSE << r, c >>

\* navigateStandard without the test of rows.length: on an empty structure
\* this.rows[this.currentRow].length throws
navigateStandard_NoEmptyTest(n, direction) ==
    IF direction \notin Directions
    THEN Returned(n, FALSE, FALSE, "Invalid direction")
    ELSE IF Len(n.rows) = 0 THEN Thrown(n)
    ELSE LET to == StandardMove(n, direction)
             moved == (n.currentRow # to[1] \/ n.currentCol # to[2])
         IN  Returned(updateFocus([n EXCEPT !.currentRow = to[1],
                                            !.currentCol = to[2]]),
                      TRUE, moved, "")

navigateStandard(n, direction) ==
    IF Len(n.rows) = 0 THEN Returned(n, FALSE, FALSE, "No elements found")
    ELSE IF direction \notin Directions
    THEN Returned(n, FALSE, FALSE, "Invalid direction")
    ELSE LET to == StandardMove(n, direction)
             moved == (n.currentRow # to[1] \/ n.currentCol # to[2])
         IN  Returned(updateFocus([n EXCEPT !.currentRow = to[1],
                                            !.currentCol = to[2]]),
                      TRUE, moved, "")

\* navigate(direction): discover, then the move on the fresh structure
navigate(n, p, direction) ==
    LET d == discover(n, p)
    IN  IF d.inModalMode /\ Len(d.zones) > 0
        THEN navigateModal(d, direction)
        ELSE navigateStandard(d, direction)

\* select(): the object returned; the click and the discover after it are
\* left to timers
select(n) ==
    IF n.focusedElement = 0
    THEN Returned(n, FALSE, FALSE, "No element focused")
    ELSE Returned([n EXCEPT !.clickTimers =
                                Append(@, [elementToClick |-> n.focusedElement,
                                           focused |-> n.focusedElement]),
                            !.selects = @ + 1],
                  TRUE, FALSE, "Click dispatched")

\* the click target of a timer of select that fires on n: the clickable
\* child of elementToClick or elementToClick, named by elementToClick
ClickTarget_Focused(timer, n) == n.focusedElement

ClickTarget(timer, n) == timer.elementToClick

\* init(): createOverlay, discover, observeDOM
init(n, p) == discover([n EXCEPT !.overlayShown = FALSE], p)

reset(n, p) ==
    discover([n EXCEPT !.currentRow = 0, !.currentCol = 0, !.currentZone = 0,
                       !.inModalMode = FALSE, !.inPlayerMode = FALSE,
                       !.zones = << >>, !.dropdownOpen = FALSE,
                       !.overlayHideTimeout = FALSE], p)

(***************************************************************************)
(* AuthManager (auth.py): pure parts                                       *)
(*                                                                         *)
(* A cookie is the dict Network.getAllCookies gives, kept to its name and  *)
(* value; the name "None" stands for a dict without the key "name"         *)
(* (c.get("name") is None).  An optional value is a sequence: << >> is     *)
(* None / missing, << v >> is the value v.                                 *)
(***************************************************************************)
Cookie(name, value) == [name |-> name, value |-> value]

REQUIRED_COOKIES == << "nfvdid", "SecureNetflixId", "NetflixId" >>

\* validate_cookies with any() in the place of all()
validate_cookies_Any(cookies) ==
    LET cookie_names == {cookies[i].name : i \in 1..Len(cookies)}
    IN  \E k \in 1..Len(REQUIRED_COOKIES) : REQUIRED_COOKIES[k] \in cookie_names

validate_cookies(cookies) ==
    LET cookie_names == {cookies[i].name : i \in 1..Len(cookies)}
    IN  \A k \in 1..Len(REQUIRED_COOKIES) : REQUIRED_COOKIES[k] \in cookie_names

\* str(pin): the decimal digits, most significant first, "-" for a
\* negative number
DigitChars == << "0", "1", "2", "3", "4", "5", "6", "7", "8", "9" >>

RECURSIVE DigitsOf(_)
DigitsOf(k) ==
    IF k < 10 THEN << DigitChars[k + 1] >>
    ELSE Append(DigitsOf(k \div 10), DigitChars[(k % 10) + 1])

Str(pin) == IF pin < 0 THEN << "-" >> \o DigitsOf(-pin) ELSE DigitsOf(pin)

AES_KEY_BYTES == 16

\* key = (str(pin) * 4).encode("utf-8")[:16]
DeriveKey(pin) ==
    LET rep == Str(pin) \o Str(pin) \o Str(pin) \o Str(pin)
    IN  SubSeq(rep, 1, Min(AES_KEY_BYTES, Len(rep)))

\* AES.new(key, ...) raises ValueError unless the key has a legal length;
\* a key cut to at most 16 bytes is legal only at 16
KeyAccepted(key) == Len(key) = AES_KEY_BYTES

\* the JSON envelope; timestamp and data are optional keys of the dict
Envelope(timestamp, data) ==
    [app_name |-> "NetflixControl", app_version |-> "0.1.0",
     timestamp |-> timestamp, data |-> data]

\* the content of the cookies file: "cipher" is base64 of the AES-CBC
\* encryption (zero IV, PKCS7 padding) of the JSON text of plain under key;
\* "garbage" is any text that is no such thing
Cipher(key, plain) == [kind |-> "cipher", key |-> key, plain |-> plain]

Garbage == [kind |-> "garbage", key |-> << >>, plain |-> Envelope(<< >>, << >>)]

\* b64decode, decrypt, unpad, json.loads: the dict, or << >> when one of
\* them raises.  Under another key the decryption gives noise, which fails
\* at unpad or at the JSON parse.
Decrypt(content, key) ==
    IF KeyAccepted(key) /\ content.kind = "cipher" /\ content.key = key
    THEN << content.plain >>
    ELSE << >>

THIRTY_DAYS == 30 * 86400

\* int((datetime.utcnow() + timedelta(days=30)).timestamp()): utcnow() is a
\* naive datetime holding UTC wall time, timestamp() reads a naive datetime
\* as local time
ExpiryAt(now, offset) == now + THIRTY_DAYS - offset

\* data.get("timestamp", 0) < int(time.time()), with no expiry at all
Expired_Never(envelope, now) == FALSE

\* data.get("timestamp", 0) < int(time.time())
Expired(envelope, now) ==
    (IF envelope.timestamp = << >> THEN 0 ELSE envelope.timestamp[1]) < now

\* the cookies of the envelope cut down to the required ones
EnvelopeCookies_Required(envelope) ==
    IF envelope.data = << >> THEN << >>
    ELSE SelectSeq(envelope.data[1],
                   LAMBDA c : \E k \in 1..Len(REQUIRED_COOKIES) :
                                 c.name = REQUIRED_COOKIES[k])

\* data.get("data", {}).get("cookies", [])
EnvelopeCookies(envelope) ==
    IF envelope.data = << >> THEN << >> ELSE envelope.data[1]

\* _load_encrypted_data(pin): the dict or << >> (None)
load_encrypted_data(file, pin, storedPin) ==
    LET use == IF pin = << >> THEN storedPin ELSE pin
    IN  IF use = << >> THEN << >> ELSE Decrypt(file[1], DeriveKey(use[1]))

\* load_session with the cookies injected before the expiry is looked at
load_session_InjectFirst(file, pin, storedPin, now, browserOk) ==
    IF file = << >> THEN [ret |-> "False", passed |-> << >>]
    ELSE LET data == load_encrypted_data(file, pin, storedPin)
         IN  IF data = << >> THEN [ret |-> "False", passed |-> << >>]
             ELSE LET cookies == EnvelopeCookies(data[1])
                  IN  IF ~validate_cookies(cookies)
                      THEN [ret |-> "False", passed |-> << >>]
                      ELSE [ret |-> IF browserOk /\ ~Expired(data[1], now)
                                    THEN "True" ELSE "False",
                            passed |-> << cookies >>]

\* load_session(pin): ret is the value returned, passed the argument of the
\* set_cookies call (<< >>: not called); browserOk: the Network.setCookies
\* request is answered without error, otherwise ws_request raises and the
\* except clause returns False
load_session(file, pin, storedPin, now, browserOk) ==
    IF file = << >> THEN [ret |-> "False", passed |-> << >>]
    ELSE LET data == load_encrypted_data(file, pin, storedPin)
         IN  IF data = << >> THEN [ret |-> "False", passed |-> << >>]
             ELSE LET cookies == EnvelopeCookies(data[1])
                  IN  IF ~validate_cookies(cookies)
                      THEN [ret |-> "False", passed |-> << >>]
                      ELSE IF Expired(data[1], now)
                      THEN [ret |-> "False", passed |-> << >>]
                      ELSE [ret |-> IF browserOk THEN "True" ELSE "False",
                            passed |-> << cookies >>]

\* save_session with self._pin assigned before the cookies are validated
save_session_PinFirst(cookies, pin, rnd, now, offset, file, storedPin) ==
    LET use == IF pin = << >> THEN rnd ELSE pin[1]
    IN  IF ~validate_cookies(cookies)
        THEN [ret |-> "ValueError", pin |-> << use >>, file |-> file, used |-> 0]
        ELSE IF ~KeyAccepted(DeriveKey(use))
        THEN [ret |-> "ValueError", pin |-> << use >>, file |-> file, used |-> 0]
        ELSE [ret |-> "Pin", pin |-> << use >>,
              file |-> << Cipher(DeriveKey(use),
                                 Envelope(<< ExpiryAt(now, offset) >>, << cookies >>)) >>,
              used |-> use]

\* save_session(pin) once get_all_cookies() has given cookies; rnd is the
\* value random.randint(1000, 9999) gives.  ret: "Pin" (the pin is
\* returned) or "ValueError"; pin and file are self._pin and the cookies
\* file after the call.
save_session(cookies, pin, rnd, now, offset, file, storedPin) ==
    LET use == IF pin = << >> THEN rnd ELSE pin[1]
    IN  IF ~validate_cookies(cookies)
        THEN [ret |-> "ValueError", pin |-> storedPin, file |-> file, used |-> 0]
        ELSE IF ~KeyAccepted(DeriveKey(use))
        THEN \* AES.new raises ValueError after self._pin = pin
             [ret |-> "ValueError", pin |-> << use >>, file |-> file, used |-> 0]
        ELSE [ret |-> "Pin", pin |-> << use >>,
              file |-> << Cipher(DeriveKey(use),
                                 Envelope(<< ExpiryAt(now, offset) >>, << cookies >>)) >>,
              used |-> use]

\* Network.setCookies: a cookie replaces the cookie of its name, a new name
\* is added at the end
RECURSIVE SetCookies(_, _)
SetCookies(jar, cookies) ==
    IF cookies = << >> THEN jar
    ELSE LET c == Head(cookies)
             at == {i \in 1..Len(jar) : jar[i].name = c.name}
         IN  SetCookies(IF at = {} THEN Append(jar, c)
                        ELSE [i \in 1..Len(jar) |-> IF i \in at THEN c ELSE jar[i]],
                        Tail(cookies))

(***************************************************************************)
(* BrowserManager (browser.py): the protocol connection                    *)
(*                                                                         *)
(* Time is in seconds.  A frame is what json.loads gives for a message of  *)
(* the browser: a response carries "id" (and "error" when the request      *)
(* failed), an event carries "method" and no "id".                         *)
(***************************************************************************)
\* the threads that call into the BrowserManager: the main thread and a
\* worker of the API server
Threads == {"main", "api"}

\* ws_request(..., timeout: float = 10.0)
REQUEST_TIMEOUT == 10

\* websocket.create_connection(endpoint, timeout=5): recv() raises
\* WebSocketTimeoutException after 5 seconds without a frame
RECV_TIMEOUT == 5

\* a response frame; to: the thread whose request the browser answers
Response(id, error, to) ==
    [kind |-> "response", id |-> << id >>, error |-> error, method |-> "", to |-> to]

\* an event frame
Event(method) ==
    [kind |-> "event", id |-> << >>, error |-> FALSE, method |-> method, to |-> ""]

\* a thread that is in no call of the BrowserManager
NoCall ==
    [pc |-> "idle", kind |-> "", read |-> 0, req_id |-> 0, start_time |-> 0,
     outcome |-> "", got |-> << >>, robbed |-> FALSE]

\* BrowserManager.__init__, then a connection: _msg_id, the frames the
\* socket holds, the requests the browser has not answered, the clock, the
\* calls of the threads, and the history of the ids sent.  loadSent:
\* history, the threads for whose Page.navigate command the browser has
\* emitted the load event
BrowserManager ==
    [ws |-> TRUE, msg_id |-> 0, inbox |-> << >>, pending |-> {}, now |-> 0,
     calls |-> [t \in Threads |-> NoCall], sent |-> << >>, loadSent |-> {}]

\* connect() not called: its timeout, the time since start_time in half
\* seconds, the listing of the latest poll or that its urlopen raised,
\* endpoint, self._ws, the domains enabled; seen: history, a poll listed a
\* page target with an endpoint
NotConnecting ==
    [pc |-> "idle", timeout |-> 0, elapsed |-> 0, listing |-> << >>,
     urlError |-> FALSE, endpoint |-> << >>, seen |-> FALSE, ws |-> FALSE,
     enabled |-> << >>]

\* what runs stop(): the finally clause of run() on the main thread, the
\* monitor thread, and a signal handler (which runs on the main thread and
\* suspends it until it returns)
Executors == {"main", "monitor", "signal"}

\* an executor's position in stop() and the close() it calls
NotStopping == [e \in Executors |-> "idle"]

\* _handle_auth not entered: its position, the argument pin, the seconds
\* since start_time of wait_for_login and what it returned; history: what
\* is_logged_in gave, whether load_session was called and returned True,
\* whether the login URL was navigated to, whether save_session was
\* called, whether a poll saw a browse URL that is no login URL, and
\* whether a URL query of the wait was answered
NoFlow ==
    [pc |-> "idle", pin |-> << >>, elapsed |-> 0, ret |-> "none",
     loggedIn |-> "none", loadTried |-> FALSE, loaded |-> FALSE,
     loginNav |-> FALSE, saveTried |-> FALSE, sawBrowse |-> FALSE,
     answered |-> FALSE]

\* NetflixControl.__init__ and the call of run(): the position of the main
\* thread and of the monitor thread, the positions in stop(), the argument
\* skip_login, whether the handlers are installed, _shutdown_event,
\* browser._ws and browser._process, whether the OS process lives; history:
\* the number of signals, the number of times stop() ran, the executors
\* inside browser.close(), those whose close() raised, and whether the
\* process ended without being terminated by close(); flow: _handle_auth
NetflixControl ==
    [main |-> "start", monitor |-> "none", stop |-> NotStopping,
     skip_login |-> FALSE, handlers |-> FALSE, shutdown_event |-> FALSE,
     ws |-> FALSE, process |-> FALSE, alive |-> FALSE, signals |-> 0,
     stops |-> 0, closing |-> {}, raised |-> {}, exited |-> FALSE,
     flow |-> NoFlow]

\* a dict without keys
NoRows == [i \in {} |-> << >>]

\* the rendered page the legacy discovery queries: the kind of its URL and
\* the number of items of each content row
LegacyDom(url, rows) == [url |-> url, rows |-> rows]

\* a thread with no NavigationState operation in progress: the operation, the
\* position in it, the locals of discovery (the numbers of row and item
\* nodes queried, the loop indices) and of navigate (direction, row_indices),
\* what the latest operation ended with, and whether the operation in
\* progress has run a discovery
NoOp ==
    [op |-> "none", pc |-> "idle", direction |-> "", row_node_ids |-> 0,
     row_idx |-> 0, item_node_ids |-> 0, col_idx |-> 0, row_indices |-> {},
     ret |-> "", rebuilt |-> FALSE]

\* NavigationState.__init__ (the dataclass defaults), with the page, the
\* operations of the threads, the number of API requests made and whether
\* _inject_navigation was called.  inject, fallback: history, how
\* inject_nav_controller ended ("success", "no_success", "raised") and
\* whether _inject_navigation called discover_elements
NavigationState ==
    [context |-> "unknown", elements |-> << >>, rows |-> NoRows,
     focus_row |-> 0, focus_col |-> 0, dom |-> LegacyDom("login", << >>),
     ops |-> [t \in Threads |-> NoOp], requests |-> 0, injected |-> FALSE,
     inject |-> "none", fallback |-> FALSE]

(***************************************************************************)
(* State                                                                   *)
(***************************************************************************)
VARIABLES
    page,            \* the rendered page the agent lives in
    nav,             \* window.NetflixNav
    navPc,           \* "constructed": object literal built, init() not yet run
    discoverTimeout, \* TRUE while the debounce timer of observeDOM is pending
    log,             \* history: the latest calls of one kind made in a row
    authPin,         \* AuthManager._pin: << >> is None, << p >> the integer p
    cookiesFile,     \* config.cookies_file: << >> missing, << content >>
    browserCookies,  \* the cookie list Network.getAllCookies gives
    clock,           \* int(time.time()), epoch seconds
    utcOffset,       \* UTC offset of the host's local time, seconds
    ticks,           \* history: the number of clock steps made
    saved,           \* history: << >> or the save the cookies file comes from
    authRes,         \* history: the latest AuthManager call and its outcome
    fnIn,            \* pure-function harness: the argument
    fnOut,           \* pure-function harness: the value
    fnPc,            \* pure-function harness: "input", then the function name
    cdp,             \* BrowserManager: the websocket, _msg_id and the calls on them
    conn,            \* BrowserManager.connect: the poll loop
    app,             \* NetflixControl: the threads and the shutdown sequence
    legacy           \* NavigationState and the operations in progress on it

navVars == << page, nav, navPc, discoverTimeout, log >>

authVars ==
    << authPin, cookiesFile, browserCookies, clock, utcOffset, ticks, saved,
       authRes >>

fnVars == << fnIn, fnOut, fnPc >>

sysVars == << cdp, conn, app, legacy >>

vars == << navVars, authVars, fnVars, sysVars >>

\* the clock value the model starts at (epoch seconds)
StartClock == 1700000000

\* the latest-call record before any call
NoRes ==
    [op |-> "none", pin |-> << >>, ret |-> "None", passed |-> << >>,
     env |-> << >>, browserOk |-> TRUE]

\* the parts of the state a specification does not use stay as constructed
NavIdle ==
    /\ page = PageEmpty /\ nav = NetflixNav /\ navPc = "constructed"
    /\ discoverTimeout = FALSE /\ log = << >>

AuthIdle ==
    /\ authPin = << >> /\ cookiesFile = << >> /\ browserCookies = << >>
    /\ clock = StartClock /\ utcOffset = 0 /\ ticks = 0
    /\ saved = << >> /\ authRes = NoRes

FnIdle == fnIn = << >> /\ fnOut = << >> /\ fnPc = "idle"

SysIdle ==
    /\ cdp = BrowserManager /\ conn = NotConnecting
    /\ app = NetflixControl /\ legacy = NavigationState

\* the number of navigate calls the history keeps
TrailLen == 3

\* what navigate may be called with: the four directions and another string
DirInputs == Directions \cup {"diagonal"}

\* the index of the focused row, or zone in modal mode
FocusIdx(n) == IF n.inModalMode THEN n.currentZone ELSE n.currentRow

\* history entry of a navigate call: d is the agent after the discover pass
\* of the call, r what the call gave
NavEntry(direction, d, r) ==
    [op |-> "navigate", dir |-> direction,
     success |-> r.res.success, moved |-> r.res.moved, threw |-> r.res.threw,
     fromIdx |-> FocusIdx(d), fromCol |-> d.currentCol,
     toIdx |-> FocusIdx(r.nav), toCol |-> r.nav.currentCol,
     elementCount |-> Len(elements(r.nav)),
     count |-> IF d.inModalMode THEN Len(d.zones) ELSE Len(d.rows),
     focused |-> 0, clicked |-> 0]

\* history entry of a discover() call
DiscEntry(n) ==
    [op |-> "discover", dir |-> "",
     success |-> TRUE, moved |-> FALSE, threw |-> FALSE,
     fromIdx |-> FocusIdx(n), fromCol |-> n.currentCol,
     toIdx |-> FocusIdx(n), toCol |-> n.currentCol,
     elementCount |-> discoverResult(n).elementCount,
     count |-> discoverResult(n).count,
     focused |-> 0, clicked |-> 0]

\* append to the history: calls of another kind start it afresh
Logged(e, keep) ==
    LET same == IF log # << >> /\ log[1].op = e.op THEN log ELSE << >>
        all == Append(same, e)
    IN  IF Len(all) > keep THEN SubSeq(all, Len(all) - keep + 1, Len(all)) ELSE all

NavInit ==
    /\ page \in Pages
    /\ nav = NetflixNav
    /\ navPc = "constructed"
    /\ discoverTimeout = FALSE
    /\ log = << >>
    /\ AuthIdle
    /\ FnIdle
    /\ SysIdle

\* the script is evaluated in a fresh document: return window.NetflixNav.init()
AgentInit ==
    /\ navPc = "constructed"
    /\ nav' = init(nav, page)
    /\ navPc' = "ready"
    /\ log' = << >>
    /\ UNCHANGED << page, discoverTimeout >>
    /\ UNCHANGED << authVars, fnVars, sysVars >>

\* the document is replaced (navigation, reload): the agent is gone until
\* the script is evaluated again
PageLoad(p) ==
    /\ navPc = "ready"
    /\ page' = p
    /\ nav' = NetflixNav
    /\ navPc' = "constructed"
    /\ discoverTimeout' = FALSE
    /\ log' = << >>
    /\ UNCHANGED << authVars, fnVars, sysVars >>

\* window.NetflixNav.discover()
Discover ==
    /\ navPc = "ready"
    /\ nav' = discover(nav, page)
    /\ log' = Logged(DiscEntry(nav'), 2)
    /\ UNCHANGED << page, navPc, discoverTimeout >>
    /\ UNCHANGED << authVars, fnVars, sysVars >>

\* window.NetflixNav.navigate(direction); keep: the history length
NavigateKeep(direction, keep) ==
    /\ navPc = "ready"
    /\ LET r == navigate(nav, page, direction)
       IN  /\ nav' = r.nav
           /\ log' = Logged(NavEntry(direction, discover(nav, page), r), keep)
    /\ UNCHANGED << page, navPc, discoverTimeout >>
    /\ UNCHANGED << authVars, fnVars, sysVars >>

Navigate(direction) == NavigateKeep(direction, 1)

\* history entry of a select() call on the agent n
SelEntry(n, r) ==
    [op |-> "select", dir |-> "",
     success |-> r.res.success, moved |-> FALSE, threw |-> r.res.threw,
     fromIdx |-> FocusIdx(n), fromCol |-> n.currentCol,
     toIdx |-> FocusIdx(r.nav), toCol |-> r.nav.currentCol,
     elementCount |-> Len(elements(r.nav)),
     count |-> IF n.inModalMode THEN Len(n.zones) ELSE Len(n.rows),
     focused |-> n.focusedElement, clicked |-> 0]

MaxSelects == 2

\* history entry of a click dispatched by a timer of select: the element
\* focused when select was called and the element the click went to
ClickEntry(timer, n) ==
    [op |-> "click", dir |-> "",
     success |-> TRUE, moved |-> FALSE, threw |-> FALSE,
     fromIdx |-> FocusIdx(n), fromCol |-> n.currentCol,
     toIdx |-> FocusIdx(n), toCol |-> n.currentCol,
     elementCount |-> Len(elements(n)),
     count |-> IF n.inModalMode THEN Len(n.zones) ELSE Len(n.rows),
     focused |-> timer.focused, clicked |-> ClickTarget(timer, n)]

\* window.NetflixNav.select(), with at most MaxSelects successful calls
\* while a timer of select is pending
Select ==
    /\ navPc = "ready"
    /\ nav.selects < MaxSelects
    /\ LET r == select(nav)
       IN  /\ nav' = r.nav
           /\ log' = Logged(SelEntry(nav, r), 1)
    /\ UNCHANGED << page, navPc, discoverTimeout >>
    /\ UNCHANGED << authVars, fnVars, sysVars >>

\* the oldest 100 ms timer of select fires: the click is dispatched to the
\* page and the discover after it is scheduled
ClickTimerFire ==
    /\ navPc = "ready"
    /\ nav.clickTimers # << >>
    /\ nav' = [nav EXCEPT !.clickTimers = Tail(@),
                          !.discoverTimers = @ + 1,
                          !.clicks = @ + 1]
    /\ log' = << ClickEntry(Head(nav.clickTimers), nav) >>
    /\ UNCHANGED << page, navPc, discoverTimeout >>
    /\ UNCHANGED << authVars, fnVars, sysVars >>

\* a 500 ms timer of select fires: this.discover(); the history counters
\* start again when no timer of select is left
RediscoverFire ==
    /\ navPc = "ready"
    /\ nav.discoverTimers > 0
    /\ LET d == discover([nav EXCEPT !.discoverTimers = @ - 1,
                                     !.rediscovers = @ + 1], page)
       IN  nav' = IF d.clickTimers = << >> /\ d.discoverTimers = 0
                  THEN [d EXCEPT !.selects = 0, !.clicks = 0,
                                 !.rediscovers = 0]
                  ELSE d
    /\ log' = << >>
    /\ UNCHANGED << page, navPc, discoverTimeout >>
    /\ UNCHANGED << authVars, fnVars, sysVars >>

\* window.NetflixNav.reset()
Reset ==
    /\ navPc = "ready"
    /\ nav' = reset(nav, page)
    /\ log' = << >>
    /\ UNCHANGED << page, navPc, discoverTimeout >>
    /\ UNCHANGED << authVars, fnVars, sysVars >>

\* the overlay hide timer fires: hideFocus(); overlayHideTimeout = null
HideTimerFire ==
    /\ navPc = "ready"
    /\ nav.overlayHideTimeout
    /\ nav' = hideFocus(nav)
    /\ UNCHANGED << page, navPc, discoverTimeout, log >>
    /\ UNCHANGED << authVars, fnVars, sysVars >>

\* the page content changes under the agent (lazy load, scroll, a modal
\* opens or closes); addedElements: the mutation records hold an added
\* element node other than the overlay, which arms the debounce timer
DomChange(p, addedElements) ==
    /\ navPc = "ready"
    /\ p # page
    /\ page' = p
    /\ discoverTimeout' = (discoverTimeout \/ addedElements)
    /\ log' = << >>
    /\ UNCHANGED << nav, navPc >>
    /\ UNCHANGED << authVars, fnVars, sysVars >>

\* the debounce timer of observeDOM fires
DebounceFire ==
    /\ navPc = "ready"
    /\ discoverTimeout
    /\ discoverTimeout' = FALSE
    /\ nav' = discover(nav, page)
    /\ log' = << >>
    /\ UNCHANGED << page, navPc >>
    /\ UNCHANGED << authVars, fnVars, sysVars >>

NavNext ==
    \/ AgentInit
    \/ \E p \in Pages : PageLoad(p)
    \/ Discover
    \/ \E direction \in DirInputs : Navigate(direction)
    \/ Reset
    \/ HideTimerFire
    \/ \E p \in Pages, addedElements \in BOOLEAN : DomChange(p, addedElements)
    \/ DebounceFire

NavSpec == NavInit /\ [][NavNext]_vars

(***************************************************************************)
(* A walk on a page that does not change: init(), then navigate calls      *)
(* only (and the hide timer, which fires on its own).  The history keeps   *)
(* the last TrailLen calls of the walk.                                    *)
(***************************************************************************)
Walk(direction) ==
    /\ direction \in Directions
    /\ NavigateKeep(direction, TrailLen)

WalkNext ==
    \/ AgentInit
    \/ \E direction \in Directions : Walk(direction)
    \/ HideTimerFire

WalkSpec == NavInit /\ [][WalkNext]_vars

(***************************************************************************)
(* AuthManager: the session vault as a state machine                       *)
(***************************************************************************)
\* the number of clock steps a behaviour makes
MaxTicks == 2

\* clock steps: a second and thirty days
TickSteps == {1, THIRTY_DAYS}

\* UTC offsets of the host: UTC and UTC+2
UtcOffsets == {0, 7200}

\* the browser's cookie store lists its cookies in one order
JarFull ==
    << Cookie("nfvdid", "v1"), Cookie("NetflixId", "v1"),
       Cookie("SecureNetflixId", "v1"), Cookie("memclid", "v1") >>

JarOther ==
    << Cookie("nfvdid", "v2"), Cookie("NetflixId", "v2"),
       Cookie("SecureNetflixId", "v2"), Cookie("memclid", "v2") >>

JarPartial == << Cookie("nfvdid", "v1"), Cookie("NetflixId", "v1") >>

\* what the browser may hold: nothing, two logged-in jars, a partial jar
CookieJars == { << >>, JarFull, JarOther, JarPartial }

\* the PINs callers pass: too short for a key, a 4-digit PIN, and the
\* 8-digit PIN that repeats it
PinInputs == {7, 1234, 12341234}

PinOpts == {<< >>} \cup {<< q >> : q \in PinInputs}

RANDOM_PIN_MIN == 1000

RANDOM_PIN_MAX == 9999

\* the values of random.randint(1000, 9999) the model draws
RandomPins == {RANDOM_PIN_MIN, RANDOM_PIN_MAX}

\* a cookies file this process did not write: undecodable text, an envelope
\* without "timestamp", an envelope without "data", and a file an earlier
\* run saved that expires one second after the start
ForeignFiles ==
    { Garbage,
      Cipher(DeriveKey(1234), Envelope(<< >>, << JarFull >>)),
      Cipher(DeriveKey(1234), Envelope(<< StartClock + 1 >>, << >>)),
      Cipher(DeriveKey(1234), Envelope(<< StartClock + 1 >>, << JarFull >>)) }

AuthInit ==
    /\ authPin = << >>
    /\ cookiesFile = << >>
    /\ browserCookies \in CookieJars
    /\ clock = StartClock
    /\ utcOffset \in UtcOffsets
    /\ ticks = 0
    /\ saved = << >>
    /\ authRes = NoRes
    /\ NavIdle
    /\ FnIdle
    /\ SysIdle

\* the effect of save_session(pin); browserOk: Network.getAllCookies is
\* answered, otherwise get_all_cookies raises before anything is done
SaveEffect(op, pin, rnd, browserOk) ==
    IF ~browserOk
    THEN /\ authRes' = [NoRes EXCEPT !.op = op, !.pin = pin, !.ret = "Exception",
                                     !.browserOk = FALSE]
         /\ UNCHANGED << authPin, cookiesFile, saved >>
    ELSE LET r == save_session(browserCookies, pin, rnd, clock, utcOffset,
                               cookiesFile, authPin)
         IN  /\ authPin' = r.pin
             /\ cookiesFile' = r.file
             /\ saved' = IF r.ret = "Pin"
                         THEN << [pin |-> r.used, cookies |-> browserCookies,
                                  at |-> clock,
                                  expiry |-> r.file[1].plain.timestamp[1]] >>
                         ELSE saved
             /\ authRes' = [NoRes EXCEPT !.op = op, !.pin = pin, !.ret = r.ret]

\* the effect of load_session(pin) with self._pin = storedPin
LoadEffect(op, pin, storedPin, browserOk) ==
    LET r == load_session(cookiesFile, pin, storedPin, clock, browserOk)
    IN  /\ browserCookies' = IF r.ret = "True"
                             THEN SetCookies(browserCookies, r.passed[1])
                             ELSE browserCookies
        /\ authRes' = [NoRes EXCEPT
                         !.op = op, !.pin = pin, !.ret = r.ret,
                         !.passed = r.passed,
                         !.env = IF cookiesFile = << >> THEN << >>
                                 ELSE load_encrypted_data(cookiesFile, pin, storedPin),
                         !.browserOk = browserOk]

\* AuthManager.save_session(pin)
SaveSession(pin, rnd, browserOk) ==
    /\ SaveEffect("save_session", pin, rnd, browserOk)
    /\ UNCHANGED << browserCookies, clock, utcOffset, ticks >>
    /\ UNCHANGED << navVars, fnVars, sysVars >>

\* POST /auth/save: not logged in is answered without a save
ApiSave(loggedIn, rnd) ==
    /\ IF loggedIn
       THEN SaveEffect("save_session", << >>, rnd, TRUE)
       ELSE /\ authRes' = [NoRes EXCEPT !.op = "api_save", !.ret = "NotLoggedIn"]
            /\ UNCHANGED << authPin, cookiesFile, saved >>
    /\ UNCHANGED << browserCookies, clock, utcOffset, ticks >>
    /\ UNCHANGED << navVars, fnVars, sysVars >>

\* AuthManager.load_session(pin)
LoadSession(pin, browserOk) ==
    /\ LoadEffect("load_session", pin, authPin, browserOk)
    /\ UNCHANGED << authPin, cookiesFile, clock, utcOffset, ticks, saved >>
    /\ UNCHANGED << navVars, fnVars, sysVars >>

\* POST /auth/load and _handle_auth: set_pin(pin), then load_session(pin)
ApiLoad(q, browserOk) ==
    /\ authPin' = << q >>
    /\ LoadEffect("load_session", << q >>, << q >>, browserOk)
    /\ UNCHANGED << cookiesFile, clock, utcOffset, ticks, saved >>
    /\ UNCHANGED << navVars, fnVars, sysVars >>

\* AuthManager.clear_session(): unlink the file, then clear_cookies(), which
\* raises when the browser does not answer
ClearSession(browserOk) ==
    /\ cookiesFile' = << >>
    /\ browserCookies' = IF browserOk THEN << >> ELSE browserCookies
    /\ saved' = << >>
    /\ authRes' = [NoRes EXCEPT !.op = "clear_session",
                                !.ret = IF browserOk THEN "None" ELSE "Exception",
                                !.browserOk = browserOk]
    /\ UNCHANGED << authPin, clock, utcOffset, ticks >>
    /\ UNCHANGED << navVars, fnVars, sysVars >>

\* time passes; the latest call is then in the past
Tick(d) ==
    /\ ticks < MaxTicks
    /\ clock' = clock + d
    /\ ticks' = ticks + 1
    /\ authRes' = NoRes
    /\ UNCHANGED << authPin, cookiesFile, browserCookies, utcOffset, saved >>
    /\ UNCHANGED << navVars, fnVars, sysVars >>

\* the user logs in or out in the browser
BrowserCookiesChange(jar) ==
    /\ jar # browserCookies
    /\ browserCookies' = jar
    /\ authRes' = NoRes
    /\ UNCHANGED << authPin, cookiesFile, clock, utcOffset, ticks, saved >>
    /\ UNCHANGED << navVars, fnVars, sysVars >>

\* the cookies file is replaced from outside the process
ForeignFile(content) ==
    /\ cookiesFile # << content >>
    /\ cookiesFile' = << content >>
    /\ saved' = << >>
    /\ authRes' = NoRes
    /\ UNCHANGED << authPin, browserCookies, clock, utcOffset, ticks >>
    /\ UNCHANGED << navVars, fnVars, sysVars >>

AuthNext ==
    \/ \E pin \in PinOpts, browserOk \in BOOLEAN :
          \E rnd \in IF pin = << >> THEN RandomPins ELSE {0} :
             SaveSession(pin, rnd, browserOk)
    \/ \E loggedIn \in BOOLEAN :
          \E rnd \in IF loggedIn THEN RandomPins ELSE {0} : ApiSave(loggedIn, rnd)
    \/ \E pin \in PinOpts, browserOk \in BOOLEAN : LoadSession(pin, browserOk)
    \/ \E q \in PinInputs, browserOk \in BOOLEAN : ApiLoad(q, browserOk)
    \/ \E browserOk \in BOOLEAN : ClearSession(browserOk)
    \/ \E d \in TickSteps : Tick(d)
    \/ \E jar \in CookieJars : BrowserCookiesChange(jar)
    \/ \E content \in ForeignFiles : ForeignFile(content)

AuthSpec == AuthInit /\ [][AuthNext]_vars

(***************************************************************************)
(* Row grouping on its own: the agent is started on pages drawn from a     *)
(* pool of elements                                                        *)
(***************************************************************************)
\* the number of elements on a page of the pool
MaxClusterItems == 5

\* the pool, in document order: the five elements of the row scenario, one
\* between its first two rows, and two tall elements that begin far above
\* the viewport and reach into it
ClusterNodes ==
    << Node(1, {"buttons"}, 140, 95, 100, 60, 0),
       Node(2, {"tiles"}, 20, 10, 100, 60, 0),
       Node(3, {"tiles"}, 20, 210, 100, 60, 0),
       Node(4, {"tiles"}, 140, 12, 100, 60, 0),
       Node(5, {"profiles"}, 20, 98, 100, 60, 0),
       Node(6, {"tiles"}, 20, -1040, 100, 1100, 0),
       Node(7, {"tiles"}, 140, -950, 100, 1000, 0),
       Node(8, {"tiles"}, 140, 60, 100, 60, 0) >>

\* window.innerHeight: a threshold of 50px, and one at the 80px ceiling
ClusterHeights == {500, 1200}

ClusterPages ==
    { MkPage("other", FALSE, FALSE, "none", ih, 1200,
             SelectSeq(ClusterNodes, LAMBDA nd : nd.id \in ids)) :
        ih \in ClusterHeights,
        ids \in {c \in SUBSET (1..Len(ClusterNodes)) :
                   Cardinality(c) <= MaxClusterItems} }

ClusterInit ==
    /\ page \in ClusterPages
    /\ nav = NetflixNav
    /\ navPc = "constructed"
    /\ discoverTimeout = FALSE
    /\ log = << >>
    /\ AuthIdle
    /\ FnIdle
    /\ SysIdle

ClusterNext ==
    \/ AgentInit
    \/ Discover

ClusterSpec == ClusterInit /\ [][ClusterNext]_vars

(***************************************************************************)
(* validate_cookies on its own                                             *)
(***************************************************************************)
\* the length of the cookie lists validate_cookies is applied to
MaxCookies == 4

\* the cookie names of the inputs: the required ones, another name, and a
\* cookie without a name
CookieNames == {"nfvdid", "SecureNetflixId", "NetflixId", "memclid", "None"}

CookieLists ==
    UNION { { [i \in 1..k |-> Cookie(names[i], "v1")] :
                names \in [1..k -> CookieNames] } : k \in 0..MaxCookies }

ValidateInit ==
    /\ fnIn \in CookieLists
    /\ fnOut = << >>
    /\ fnPc = "ready"
    /\ NavIdle
    /\ AuthIdle
    /\ SysIdle

\* AuthManager.validate_cookies(cookies)
Validate ==
    /\ fnPc = "ready"
    /\ fnOut' = << validate_cookies(fnIn) >>
    /\ fnPc' = "done"
    /\ UNCHANGED fnIn
    /\ UNCHANGED << navVars, authVars, sysVars >>

ValidateNext == Validate

ValidateSpec == ValidateInit /\ [][ValidateNext]_vars

(***************************************************************************)
(* The protocol connection as a state machine: threads in ws_request and   *)
(* ws_wait_event on the one websocket, and the browser at the other end    *)
(***************************************************************************)
\* the number of requests sent in a behaviour
MaxCalls == 2

\* the number of frames the socket holds unread
MaxInbox == 1

\* the clock value after which no call is started: one socket timeout
LastStart == RECV_TIMEOUT

\* the events the browser emits; navigate() waits for the first
EventMethods == {"Page.loadEventFired", "Network.requestWillBeSent"}

\* parsed.get("id") == req_id with any response taken for the answer
Matches_AnyResponse(frame, req_id) == frame.kind = "response"

\* parsed.get("id") == req_id
Matches(frame, req_id) == frame.id = << req_id >>

\* not (time.time() - start_time < timeout)
TimedOut(start_time, now) == ~(now - start_time < REQUEST_TIMEOUT)

SysFrame == UNCHANGED << navVars, authVars, fnVars, conn, app, legacy >>

\* the call of a thread once it has ended: what it gave, and nothing of
\* its local variables
Ended(c, outcome, got) ==
    [NoCall EXCEPT !.pc = "done", !.kind = c.kind, !.req_id = c.req_id,
                   !.outcome = outcome, !.got = got, !.robbed = c.robbed]

\* the wait loop as while True: the next turn whatever the time
LoopAgain_NoDeadline(c) == c

\* the next turn of the wait loop of call c at the current time
LoopAgain(c) ==
    IF TimedOut(c.start_time, cdp.now) THEN Ended(c, "TimeoutError", << >>) ELSE c

\* ws_request is entered: the test of self._ws, then the msg_id property
\* reads self._msg_id
RequestCall(t) ==
    /\ cdp.calls[t].pc \in {"idle", "done"}
    /\ Len(cdp.sent) < MaxCalls
    /\ cdp.now <= LastStart
    /\ cdp' = [cdp EXCEPT !.calls[t] =
                 IF ~cdp.ws
                 THEN [NoCall EXCEPT !.pc = "done", !.kind = "request",
                                     !.outcome = "NotConnected"]
                 ELSE [NoCall EXCEPT !.pc = "msg_id_store", !.kind = "request",
                                     !.read = cdp.msg_id]]
    /\ SysFrame

\* self._msg_id += 1: the store
MsgIdStore(t) ==
    /\ cdp.calls[t].pc = "msg_id_store"
    /\ cdp' = [cdp EXCEPT !.msg_id = cdp.calls[t].read + 1,
                          !.calls[t].pc = "msg_id_return",
                          !.calls[t].read = 0]
    /\ SysFrame

\* return self._msg_id
MsgIdReturn(t) ==
    /\ cdp.calls[t].pc = "msg_id_return"
    /\ cdp' = [cdp EXCEPT !.calls[t].req_id = cdp.msg_id,
                          !.calls[t].pc = "send"]
    /\ SysFrame

\* self._ws.send(message); start_time = time.time()
Send(t) ==
    /\ cdp.calls[t].pc = "send"
    /\ LET c == cdp.calls[t]
       IN  cdp' = [cdp EXCEPT
                     !.pending = @ \cup {[id |-> c.req_id, from |-> t]},
                     !.sent = Append(@, c.req_id),
                     !.calls[t] = [c EXCEPT !.pc = "recv",
                                            !.start_time = cdp.now]]
    /\ SysFrame

\* ws_wait_event("Page.loadEventFired") is entered
WaitEventCall(t) ==
    /\ cdp.calls[t].pc \in {"idle", "done"}
    /\ cdp.now <= LastStart
    /\ cdp' = [cdp EXCEPT !.calls[t] =
                 IF ~cdp.ws
                 THEN [NoCall EXCEPT !.pc = "done", !.kind = "event",
                                     !.outcome = "NotConnected"]
                 ELSE [NoCall EXCEPT !.pc = "recv", !.kind = "event",
                                     !.start_time = cdp.now]]
    /\ SysFrame

\* self._ws.recv() gives the oldest frame of the socket to the thread that
\* calls it; a frame that is not what the call waits for is dropped.
\* robbed: history, the answer to a request in progress was read by
\* another thread
Recv(t) ==
    /\ cdp.calls[t].pc = "recv"
    /\ cdp.inbox # << >>
    /\ LET c == cdp.calls[t]
           frame == Head(cdp.inbox)
           mine == IF c.kind = "request" THEN Matches(frame, c.req_id)
                   ELSE frame.method = "Page.loadEventFired"
           after == IF mine
                    THEN Ended(c, IF c.kind = "event" THEN "event"
                                  ELSE IF frame.error THEN "RuntimeError"
                                  ELSE "result",
                               << frame >>)
                    ELSE LoopAgain(c)
           calls1 == [cdp.calls EXCEPT ![t] = after]
           owner == frame.to
           robs == /\ frame.kind = "response"
                   /\ owner # t
                   /\ cdp.calls[owner].pc = "recv"
                   /\ cdp.calls[owner].kind = "request"
                   /\ frame.id = << cdp.calls[owner].req_id >>
       IN  cdp' = [cdp EXCEPT
                     !.inbox = Tail(cdp.inbox),
                     !.calls = IF robs
                               THEN [calls1 EXCEPT ![owner].robbed = TRUE]
                               ELSE calls1]
    /\ SysFrame

\* self._ws.recv() raises WebSocketTimeoutException: continue.  The clock
\* moves in steps of the socket timeout, so the turn of the loop that
\* follows either ends the call or changes nothing.
RecvTimeout(t) ==
    /\ cdp.calls[t].pc = "recv"
    /\ cdp.inbox = << >>
    /\ TimedOut(cdp.calls[t].start_time, cdp.now)
    /\ cdp' = [cdp EXCEPT !.calls[t] = LoopAgain(cdp.calls[t])]
    /\ SysFrame

\* the browser answers a request it holds, with a result or an error
Respond(r, error) ==
    /\ r \in cdp.pending
    /\ Len(cdp.inbox) < MaxInbox
    /\ cdp' = [cdp EXCEPT
                 !.inbox = Append(@, Response(r.id, error, r.from)),
                 !.pending = @ \ {r}]
    /\ SysFrame

\* the browser emits an event of an enabled domain
EmitEvent(method) ==
    /\ Len(cdp.inbox) < MaxInbox
    /\ cdp' = [cdp EXCEPT !.inbox = Append(@, Event(method))]
    /\ SysFrame

\* time passes: while calls are started, and for as long as a call waits
\* for its deadline
CdpTick ==
    /\ \/ cdp.now <= LastStart
       \/ \E t \in Threads : /\ cdp.calls[t].pc = "recv"
                              /\ ~TimedOut(cdp.calls[t].start_time, cdp.now)
    /\ cdp' = [cdp EXCEPT !.now = @ + RECV_TIMEOUT]
    /\ SysFrame

\* the steps thread t makes inside a call
CallStep(t) ==
    \/ MsgIdStore(t)
    \/ MsgIdReturn(t)
    \/ Send(t)
    \/ Recv(t)
    \/ RecvTimeout(t)

CdpInit ==
    /\ cdp = BrowserManager
    /\ conn = NotConnecting /\ app = NetflixControl /\ legacy = NavigationState
    /\ NavIdle
    /\ AuthIdle
    /\ FnIdle

CdpNext ==
    \/ \E t \in Threads : RequestCall(t)
    \/ \E t \in Threads : WaitEventCall(t)
    \/ \E t \in Threads : CallStep(t)
    \/ \E r \in cdp.pending, error \in BOOLEAN : Respond(r, error)
    \/ \E method \in EventMethods : EmitEvent(method)
    \/ CdpTick

CdpSpec == CdpInit /\ [][CdpNext]_vars

\* every thread in a call is scheduled, and time passes
CdpFairSpec ==
    /\ CdpSpec
    /\ \A t \in Threads : WF_vars(CallStep(t))
    /\ WF_vars(CdpTick)

(***************************************************************************)
(* BrowserManager.connect: the poll loop.  Time is in half seconds.        *)
(***************************************************************************)
\* the number of targets in a listing
MaxTargets == 2

\* a target of the listing; url: << >> when "webSocketDebuggerUrl" is absent
Target(type, url) == [type |-> type, url |-> url]

TargetKinds ==
    { Target(type, url) : type \in {"page", "service_worker"},
                          url \in {<< >>, << "ws://a" >>, << "ws://b" >>} }

\* what one poll can read: a listing, or "URLError" when the endpoint does
\* not answer
Listings ==
    UNION { [1..k -> TargetKinds] : k \in 0..MaxTargets }

\* the timeouts connect is called with, in half seconds
ConnectTimeouts == {0, 2, 4}

\* what one turn of the loop takes: time.sleep(0.5) and a urlopen of up to
\* one second
PollCosts == {1, 2, 3}

\* the domains connect enables
DOMAINS == << "Network.enable", "Page.enable", "DOM.enable" >>

\* for session in sessions: if session.get("type") == "page":
\*     endpoint = session.get("webSocketDebuggerUrl"); break
RECURSIVE PickEndpoint(_)
PickEndpoint(sessions) ==
    IF sessions = << >> THEN << >>
    ELSE IF Head(sessions).type = "page" THEN Head(sessions).url
    ELSE PickEndpoint(Tail(sessions))

ConnFrame == UNCHANGED << navVars, authVars, fnVars, cdp, app, legacy >>

\* connect(timeout) is called
ConnectCall(timeout) ==
    /\ conn.pc = "idle"
    /\ conn' = [conn EXCEPT !.pc = "poll", !.timeout = timeout]
    /\ ConnFrame

\* one turn of the while loop that reads a listing
Poll(listing, cost) ==
    /\ conn.pc = "poll"
    /\ conn.elapsed < conn.timeout
    /\ LET endpoint == PickEndpoint(listing)
       IN  conn' = [conn EXCEPT
                      !.listing = listing,
                      !.urlError = FALSE,
                      !.endpoint = endpoint,
                      !.seen = @ \/ \E i \in 1..Len(listing) :
                                       /\ listing[i].type = "page"
                                       /\ listing[i].url # << >>,
                      !.pc = IF endpoint # << >> THEN "open" ELSE "poll",
                      !.elapsed = IF endpoint # << >> THEN @ ELSE @ + cost]
    /\ ConnFrame

\* one turn of the while loop in which urlopen raises URLError
PollError(cost) ==
    /\ conn.pc = "poll"
    /\ conn.elapsed < conn.timeout
    /\ conn' = [conn EXCEPT !.elapsed = @ + cost, !.listing = << >>,
                            !.urlError = TRUE]
    /\ ConnFrame

\* the loop ends without an endpoint: raise ConnectionError
ConnectGiveUp ==
    /\ conn.pc = "poll"
    /\ ~(conn.elapsed < conn.timeout)
    /\ conn' = [conn EXCEPT !.pc = "ConnectionError"]
    /\ ConnFrame

\* websocket.create_connection, then the three ws_request calls; answered:
\* how many of them the browser answers before one times out
OpenAndEnable(answered) ==
    /\ conn.pc = "open"
    /\ conn' = [conn EXCEPT !.ws = TRUE,
                            !.enabled = SubSeq(DOMAINS, 1, answered),
                            !.pc = IF answered = Len(DOMAINS) THEN "connected"
                                   ELSE "TimeoutError"]
    /\ ConnFrame

ConnectInit ==
    /\ conn = NotConnecting
    /\ cdp = BrowserManager /\ app = NetflixControl /\ legacy = NavigationState
    /\ NavIdle
    /\ AuthIdle
    /\ FnIdle

ConnectNext ==
    \/ \E timeout \in ConnectTimeouts : ConnectCall(timeout)
    \/ \E listing \in Listings, cost \in PollCosts : Poll(listing, cost)
    \/ \E cost \in PollCosts : PollError(cost)
    \/ ConnectGiveUp
    \/ \E answered \in 0..Len(DOMAINS) : OpenAndEnable(answered)

ConnectSpec == ConnectInit /\ [][ConnectNext]_vars

(***************************************************************************)
(* NetflixControl (main.py): run and start on the main thread, the monitor *)
(* thread, the signal handler, and stop with the close it calls            *)
(***************************************************************************)
\* the number of SIGINT/SIGTERM the process receives
MaxSignals == 2

AppFrame == UNCHANGED << navVars, authVars, fnVars, cdp, conn, legacy >>

\* a signal handler runs on the main thread: the thread's own code stands
\* still until the handler returns
MainRuns == app.stop["signal"] \in {"idle", "done"}

\* the monitor thread is a daemon thread: it ends with the main thread
Runs(e) ==
    IF e = "monitor" THEN app.main # "exit"
    ELSE IF e = "main" THEN MainRuns
    ELSE TRUE

\* self.stop() is entered by executor e
CallStop(a, e) == [a EXCEPT !.stop[e] = "set", !.stops = @ + 1]

\* an exception leaves start(): run() reaches its finally clause
Raise(a) == [a EXCEPT !.main = "finally"]

\* start(): signal.signal(SIGINT, ...) and signal.signal(SIGTERM, ...)
InstallHandlers ==
    /\ app.main = "start"
    /\ app' = [app EXCEPT !.main = "launch", !.handlers = TRUE]
    /\ AppFrame

\* SIGINT before the handlers are installed: KeyboardInterrupt, which run()
\* passes over on its way to the finally clause
Interrupt ==
    /\ app.main = "start" /\ ~app.handlers
    /\ app.signals < MaxSignals
    /\ app' = [Raise(app) EXCEPT !.signals = @ + 1]
    /\ AppFrame

\* self.browser.launch() starts the process
Launch ==
    /\ app.main = "launch" /\ MainRuns
    /\ app' = [app EXCEPT !.main = "connect", !.process = TRUE,
                          !.alive = TRUE]
    /\ AppFrame

\* self.browser.launch() raises (no browser found)
LaunchFails ==
    /\ app.main = "launch" /\ MainRuns
    /\ app' = Raise(app)
    /\ AppFrame

\* self.browser.connect() finds the endpoint of the living browser
Connect ==
    /\ app.main = "connect" /\ MainRuns
    /\ app.alive
    /\ app' = [app EXCEPT !.main = "auth", !.ws = TRUE]
    /\ AppFrame

\* self.browser.connect() raises ConnectionError at its timeout
ConnectFails ==
    /\ app.main = "connect" /\ MainRuns
    /\ app' = Raise(app)
    /\ AppFrame

\* if not skip_login: self._handle_auth(pin); every wait in it has a timeout
HandleAuth ==
    /\ app.main = "auth" /\ MainRuns
    /\ app' = [app EXCEPT !.main = "api"]
    /\ AppFrame

\* _handle_auth: a call it does not guard (get_current_url, is_logged_in,
\* initiate_login) raises
AuthFails ==
    /\ app.main = "auth" /\ MainRuns
    /\ ~app.skip_login
    /\ app' = Raise(app)
    /\ AppFrame

\* self._start_api_server(); time.sleep(2)
StartApiServer ==
    /\ app.main = "api" /\ MainRuns
    /\ app' = [app EXCEPT !.main = "inject"]
    /\ AppFrame

\* self._inject_navigation() returns
InjectNavigation ==
    /\ app.main = "inject" /\ MainRuns
    /\ app' = [app EXCEPT !.main = "monitor"]
    /\ AppFrame

\* self._inject_navigation(): the fallback discover_elements raises
InjectFails ==
    /\ app.main = "inject" /\ MainRuns
    /\ app' = Raise(app)
    /\ AppFrame

\* self._start_browser_monitor()
StartBrowserMonitor ==
    /\ app.main = "monitor" /\ MainRuns
    /\ app' = [app EXCEPT !.main = "wait", !.monitor = "wait_for_exit"]
    /\ AppFrame

\* self._shutdown_event.wait() returns and start() with it
WaitReturns ==
    /\ app.main = "wait" /\ MainRuns
    /\ app.shutdown_event
    /\ app' = [app EXCEPT !.main = "finally"]
    /\ AppFrame

\* run(): finally: app.stop()
FinallyStop ==
    /\ app.main = "finally" /\ MainRuns
    /\ app.stop["main"] = "idle"
    /\ app' = CallStop(app, "main")
    /\ AppFrame

\* run() returns: the process ends
MainExit ==
    /\ app.main = "finally" /\ MainRuns
    /\ app.stop["main"] = "done"
    /\ app' = [app EXCEPT !.main = "exit"]
    /\ AppFrame

\* SIGINT or SIGTERM arrives: _signal_handler calls self.stop()
Signal ==
    /\ app.handlers /\ app.main # "exit" /\ MainRuns
    /\ app.signals < MaxSignals
    /\ app' = [CallStop(app, "signal") EXCEPT !.signals = @ + 1]
    /\ AppFrame

\* the browser process ends by itself (window closed, crash)
BrowserExit ==
    /\ app.process /\ app.alive /\ app.main # "exit"
    /\ app' = [app EXCEPT !.alive = FALSE, !.exited = TRUE]
    /\ AppFrame

\* self.browser.wait_for_exit() returns: it blocks until the OS process
\* terminates
MonitorWaitForExit ==
    /\ app.monitor = "wait_for_exit" /\ Runs("monitor")
    /\ ~app.alive
    /\ app' = [app EXCEPT !.monitor = "check"]
    /\ AppFrame

\* the stop() of _monitor_browser is skipped
MonitorCheck_NoStop ==
    /\ app.monitor = "check" /\ Runs("monitor")
    /\ app' = [app EXCEPT !.monitor = "done"]
    /\ AppFrame

\* if not self._shutdown_event.is_set(): self.stop()
MonitorCheck ==
    /\ app.monitor = "check" /\ Runs("monitor")
    /\ app' = IF ~app.shutdown_event
              THEN [CallStop(app, "monitor") EXCEPT !.monitor = "stop"]
              ELSE [app EXCEPT !.monitor = "done"]
    /\ AppFrame

\* stop(): self._shutdown_event.set(), then browser.close() is entered
StopSet(e) ==
    /\ app.stop[e] = "set" /\ Runs(e)
    /\ app' = [app EXCEPT !.shutdown_event = TRUE, !.stop[e] = "ws_check",
                          !.closing = @ \cup {e}]
    /\ AppFrame

\* close(): if self._ws:
CloseWsCheck(e) ==
    /\ app.stop[e] = "ws_check" /\ Runs(e)
    /\ app' = [app EXCEPT
                 !.stop[e] = IF app.ws THEN "ws_close" ELSE "proc_check"]
    /\ AppFrame

\* close(): ws_request("Browser.close") and self._ws.close(), each in a try
\* that passes over what is raised when _ws is None by now; self._ws = None.
\* The browser that got the request may end at once
CloseWs(e) ==
    /\ app.stop[e] = "ws_close" /\ Runs(e)
    /\ \E gone \in BOOLEAN :
         app' = [app EXCEPT !.ws = FALSE, !.stop[e] = "proc_check",
                            !.alive = @ /\ ~(gone /\ app.ws)]
    /\ AppFrame

\* close(): if self._process:
CloseProcCheck(e) ==
    /\ app.stop[e] = "proc_check" /\ Runs(e)
    /\ app' = IF app.process
              THEN [app EXCEPT !.stop[e] = "terminate"]
              ELSE [app EXCEPT !.stop[e] = "done", !.closing = @ \ {e}]
    /\ AppFrame

\* close(): self._process.terminate(); self._process.wait(timeout=5), with
\* kill() when that raises. When _process is None by now, terminate() and
\* then kill() raise AttributeError, which stop() catches
CloseTerminate(e) ==
    /\ app.stop[e] = "terminate" /\ Runs(e)
    /\ app' = IF app.process
              THEN [app EXCEPT !.alive = FALSE, !.stop[e] = "proc_clear"]
              ELSE [app EXCEPT !.stop[e] = "done", !.closing = @ \ {e},
                               !.raised = @ \cup {e}]
    /\ AppFrame

\* close(): self._process = None
CloseProcClear(e) ==
    /\ app.stop[e] = "proc_clear" /\ Runs(e)
    /\ app' = [app EXCEPT !.process = FALSE, !.stop[e] = "done",
                          !.closing = @ \ {e}]
    /\ AppFrame

\* one step of stop() by executor e
StopStep(e) ==
    \/ StopSet(e)
    \/ CloseWsCheck(e)
    \/ CloseWs(e)
    \/ CloseProcCheck(e)
    \/ CloseTerminate(e)
    \/ CloseProcClear(e)

\* one step of the main thread's own code
MainStep ==
    \/ InstallHandlers
    \/ Launch
    \/ LaunchFails
    \/ Connect
    \/ ConnectFails
    \/ HandleAuth
    \/ AuthFails
    \/ StartApiServer
    \/ InjectNavigation
    \/ InjectFails
    \/ StartBrowserMonitor
    \/ WaitReturns
    \/ FinallyStop
    \/ MainExit
    \/ StopStep("main")

\* one step of the monitor thread
MonitorStep ==
    \/ MonitorWaitForExit
    \/ MonitorCheck
    \/ StopStep("monitor")

\* run() is called with skip_login or without
AppInit ==
    /\ NavIdle /\ AuthIdle /\ FnIdle
    /\ cdp = BrowserManager /\ conn = NotConnecting
    /\ legacy = NavigationState
    /\ \E skip_login \in BOOLEAN :
         app = [NetflixControl EXCEPT !.skip_login = skip_login]

AppNext ==
    \/ MainStep
    \/ MonitorStep
    \/ StopStep("signal")
    \/ Interrupt
    \/ Signal
    \/ BrowserExit

AppSpec == AppInit /\ [][AppNext]_vars

\* every thread that can run does run: the interpreter switches threads, a
\* handler that was entered runs to its end, and every call a step stands
\* for has a timeout
AppFairSpec ==
    /\ AppSpec
    /\ WF_vars(MainStep)
    /\ WF_vars(MonitorStep)
    /\ WF_vars(StopStep("signal"))

(***************************************************************************)
(* NavigationState (navigation.py) as the main thread and the API server   *)
(* thread use it                                                           *)
(***************************************************************************)
\* the number of content rows of the page, and of the requests the API
\* server handles
MaxLegacyRows == 2
MaxRequests == 2

\* the numbers of items a content row may hold
LegacyRowLens == {1, 2}

LegacyRowLists ==
    UNION {[1..n -> LegacyRowLens] : n \in 0..MaxLegacyRows}

LegacyDoms ==
    {LegacyDom(url, rows) : url \in {"login", "browse"},
                            rows \in LegacyRowLists}

LegacyDirections == {"up", "down", "left", "right"}

LegacyFrame == UNCHANGED << navVars, authVars, fnVars, cdp, conn, app >>

\* UIElement: the row and the column it was discovered at
UIElement(row, col) == [row |-> row, col |-> col]

\* detect_context: the context of the URL; no profile gate is on the page
ContextOf(dom) == IF dom.url = "login" THEN "login" ELSE "browse"

\* sorted(self.rows.keys())
RECURSIVE Sorted(_)
Sorted(S) ==
    IF S = {} THEN << >>
    ELSE LET m == CHOOSE x \in S : \A y \in S : x <= y
         IN  << m >> \o Sorted(S \ {m})

\* row_indices.index(self.focus_row) if self.focus_row in row_indices else 0
IndexOf(row_indices, focus_row) ==
    IF focus_row \in row_indices
    THEN Cardinality({i \in row_indices : i < focus_row})
    ELSE 0

\* len(self.rows.get(row, []))
RowLen(rows, row) == IF row \in DOMAIN rows THEN Len(rows[row]) ELSE 0

\* the clamp of navigate: min(self.focus_col, row_len - 1) if row_len > 0
\* else 0
ClampCol(focus_col, row_len) ==
    IF row_len > 0 THEN Min(focus_col, row_len - 1) ELSE 0

\* navigate(direction) from its second statement on: the focus it leaves,
\* with row_indices as read before
NavigateFocus(L, direction, row_indices) ==
    LET sorted == Sorted(row_indices)
        current_idx == IndexOf(row_indices, L.focus_row)
    IN  IF direction = "up" /\ current_idx > 0
        THEN LET r == sorted[current_idx] \* row_indices[current_idx - 1]
             IN  [focus_row |-> r,
                  focus_col |-> ClampCol(L.focus_col, RowLen(L.rows, r))]
        ELSE IF direction = "down" /\ current_idx < Len(sorted) - 1
        THEN LET r == sorted[current_idx + 2] \* row_indices[current_idx + 1]
             IN  [focus_row |-> r,
                  focus_col |-> ClampCol(L.focus_col, RowLen(L.rows, r))]
        ELSE IF direction = "left" /\ L.focus_col > 0
        THEN [focus_row |-> L.focus_row, focus_col |-> L.focus_col - 1]
        ELSE IF /\ direction = "right"
                /\ L.focus_col < RowLen(L.rows, L.focus_row) - 1
        THEN [focus_row |-> L.focus_row, focus_col |-> L.focus_col + 1]
        ELSE [focus_row |-> L.focus_row, focus_col |-> L.focus_col]

\* get_focused_element(): "element" or "None"
FocusedElement(rows, focus_row, focus_col) ==
    IF /\ focus_row \in DOMAIN rows
       /\ 0 <= focus_col /\ focus_col < Len(rows[focus_row])
    THEN "element"
    ELSE "None"

\* the operation of thread t ends with ret; legacy_navigate goes on to
\* navigate when its discovery returned
EndOp(L, t, ret) ==
    IF L.ops[t].op = "legacy_navigate" /\ L.ops[t].pc # "move" /\ ret = "ok"
    THEN [L EXCEPT !.ops[t] = [NoOp EXCEPT !.op = "legacy_navigate",
                                           !.pc = "navigate",
                                           !.direction = L.ops[t].direction,
                                           !.rebuilt = TRUE]]
    ELSE [L EXCEPT !.ops[t] = [NoOp EXCEPT !.ret = ret]]

\* _inject_navigation: inject_nav_controller returns
InjectReturns ==
    /\ ~legacy.injected /\ legacy.ops["main"].pc = "idle"
    /\ legacy' = [legacy EXCEPT !.injected = TRUE,
                                !.inject = "success",
                                !.ops["main"] = [NoOp EXCEPT !.ret = "ok"]]
    /\ LegacyFrame

\* _inject_navigation: inject_nav_controller returns a result whose
\* "success" is not set: the else branch prints the warning
InjectReturnsNoSuccess ==
    /\ ~legacy.injected /\ legacy.ops["main"].pc = "idle"
    /\ legacy' = [legacy EXCEPT !.injected = TRUE,
                                !.inject = "no_success",
                                !.ops["main"] = [NoOp EXCEPT !.ret = "ok"]]
    /\ LegacyFrame

\* _inject_navigation: inject_nav_controller raises, and the except clause
\* calls self.nav_state.discover_elements
InjectRaises ==
    /\ ~legacy.injected /\ legacy.ops["main"].pc = "idle"
    /\ legacy' = [legacy EXCEPT !.injected = TRUE,
                   !.inject = "raised",
                   !.fallback = TRUE,
                   !.ops["main"] = [NoOp EXCEPT !.op = "fallback",
                                                !.pc = "detect"]]
    /\ LegacyFrame

\* GET /status: nav_state.detect_context(browser)
Status ==
    /\ legacy.ops["api"].pc = "idle" /\ legacy.requests < MaxRequests
    /\ legacy' = [legacy EXCEPT !.requests = @ + 1,
                   !.ops["api"] = [NoOp EXCEPT !.op = "status",
                                               !.pc = "detect"]]
    /\ LegacyFrame

\* POST /control/legacy/navigate: if not nav_state.elements:
\* nav_state.discover_elements(browser); then nav_state.navigate
LegacyNavigate(direction) ==
    /\ legacy.ops["api"].pc = "idle" /\ legacy.requests < MaxRequests
    /\ legacy' = [legacy EXCEPT !.requests = @ + 1,
                   !.ops["api"] =
                       [NoOp EXCEPT !.op = "legacy_navigate",
                                    !.direction = direction,
                                    !.pc = IF legacy.elements = << >>
                                           THEN "detect" ELSE "navigate"]]
    /\ LegacyFrame

\* detect_context: get_current_url, the queries and self.context = ...
DetectContext(t) ==
    /\ legacy.ops[t].pc = "detect"
    /\ LET L == [legacy EXCEPT !.context = ContextOf(legacy.dom)]
       IN  legacy' = IF legacy.ops[t].op = "status"
                     THEN EndOp(L, t, "ok")
                     ELSE [L EXCEPT !.ops[t].pc = "clear"]
    /\ LegacyFrame

\* discover_elements: self.elements = []; self.rows = {}; the branch on
\* self.context
ClearElements(t) ==
    /\ legacy.ops[t].pc = "clear"
    /\ LET L == [legacy EXCEPT !.elements = << >>, !.rows = NoRows]
       IN  legacy' = IF legacy.context = "browse"
                     THEN [L EXCEPT !.ops[t].pc = "rows"]
                     ELSE EndOp(L, t, "ok")
    /\ LegacyFrame

\* _discover_browse_elements: row_node_ids = query_selector_all(rows)
QueryRows(t) ==
    /\ legacy.ops[t].pc = "rows"
    /\ legacy' = IF Len(legacy.dom.rows) = 0
                 THEN EndOp(legacy, t, "ok")
                 ELSE [legacy EXCEPT
                         !.ops[t].pc = "row", !.ops[t].row_idx = 0,
                         !.ops[t].row_node_ids = Len(legacy.dom.rows)]
    /\ LegacyFrame

\* _discover_browse_elements, one turn of the outer loop up to the inner
\* loop: if row_idx not in self.rows: self.rows[row_idx] = [];
\* item_node_ids = query_selector_all(items, row_node_id)
QueryItems(t) ==
    /\ legacy.ops[t].pc = "row"
    /\ LET o == legacy.ops[t]
           rows == IF o.row_idx \in DOMAIN legacy.rows THEN legacy.rows
                   ELSE [i \in DOMAIN legacy.rows \cup {o.row_idx} |->
                           IF i = o.row_idx THEN << >> ELSE legacy.rows[i]]
       IN  legacy' = [legacy EXCEPT
                        !.rows = rows,
                        !.ops[t].pc = "item", !.ops[t].col_idx = 0,
                        !.ops[t].item_node_ids = legacy.dom.rows[o.row_idx + 1]]
    /\ LegacyFrame

\* _discover_browse_elements, one turn of the inner loop: _create_element,
\* self.elements.append(element), self.rows[row_idx].append(element), which
\* raises KeyError when the key is gone
CreateElement(t) ==
    /\ legacy.ops[t].pc = "item"
    /\ LET o == legacy.ops[t]
           element == UIElement(o.row_idx, o.col_idx)
           L == [legacy EXCEPT !.elements = Append(@, element)]
       IN  legacy' =
             IF o.row_idx \notin DOMAIN legacy.rows
             THEN EndOp(L, t, "KeyError")
             ELSE LET M == [L EXCEPT !.rows[o.row_idx] = Append(@, element)]
                  IN  IF o.col_idx + 1 < o.item_node_ids
                      THEN [M EXCEPT !.ops[t].col_idx = @ + 1]
                      ELSE IF o.row_idx + 1 < o.row_node_ids
                      THEN [M EXCEPT !.ops[t].pc = "row",
                                     !.ops[t].row_idx = @ + 1]
                      ELSE EndOp(M, t, "ok")
    /\ LegacyFrame

\* navigate: if not self.rows: return None;
\* row_indices = sorted(self.rows.keys())
NavigateRead(t) ==
    /\ legacy.ops[t].pc = "navigate"
    /\ legacy' = IF DOMAIN legacy.rows = {}
                 THEN EndOp(legacy, t, "None")
                 ELSE [legacy EXCEPT
                         !.ops[t].pc = "move",
                         !.ops[t].row_indices = DOMAIN legacy.rows]
    /\ LegacyFrame

\* navigate: the branch of the direction and return
\* self.get_focused_element()
NavigateMove(t) ==
    /\ legacy.ops[t].pc = "move"
    /\ LET o == legacy.ops[t]
           f == NavigateFocus(legacy, o.direction, o.row_indices)
           L == [legacy EXCEPT !.focus_row = f.focus_row,
                               !.focus_col = f.focus_col]
       IN  legacy' = EndOp(L, t, FocusedElement(L.rows, L.focus_row,
                                                L.focus_col))
    /\ LegacyFrame

\* one step of the operation thread t is in
OpStep(t) ==
    \/ DetectContext(t)
    \/ ClearElements(t)
    \/ QueryRows(t)
    \/ QueryItems(t)
    \/ CreateElement(t)
    \/ NavigateRead(t)
    \/ NavigateMove(t)

\* the API server was started; _inject_navigation is about to be called
LegacyInit ==
    /\ NavIdle /\ AuthIdle /\ FnIdle
    /\ cdp = BrowserManager /\ conn = NotConnecting /\ app = NetflixControl
    /\ \E dom \in LegacyDoms : legacy = [NavigationState EXCEPT !.dom = dom]

LegacyNext ==
    \/ InjectReturns
    \/ InjectReturnsNoSuccess
    \/ InjectRaises
    \/ Status
    \/ \E direction \in LegacyDirections : LegacyNavigate(direction)
    \/ \E t \in Threads : OpStep(t)

LegacySpec == LegacyInit /\ [][LegacyNext]_vars

(***************************************************************************)
(* Properties of the in-page agent                                         *)
(***************************************************************************)
\* the row list, or in modal mode the element list of every zone
Structure(n) ==
    IF n.inModalMode THEN ZoneElements(n.zones) ELSE n.rows

InBounds(n) ==
    /\ FocusIdx(n) \in 0..(Len(Structure(n)) - 1)
    /\ n.currentCol \in 0..(Len(Structure(n)[FocusIdx(n) + 1]) - 1)

\* C1: on a page that does not change, after init() and any sequence of
\* navigate calls with a direction of {up, down, left, right}, the row index
\* (zone index in modal mode) is an index of the row/zone list and the
\* column index is an index inside that row/zone, whenever the structure is
\* not empty.
C1_FocusStaysInBounds ==
    (navPc = "ready" /\ Len(Structure(nav)) > 0) =>
        /\ InBounds(nav)
        /\ nav.inModalMode => nav.currentRow = nav.currentZone

\* the walk has made TrailLen calls, the last one moved, and the focus is
\* off the first row/zone and off the first column
C1_Witness ==
    /\ navPc = "ready"
    /\ Len(log) = TrailLen
    /\ Last(log).moved
    /\ FocusIdx(nav) > 0 /\ nav.currentCol > 0

\* (idx, col) is a boundary position of the structure of n for direction
Boundary(n, idx, col, direction) ==
    /\ Len(Structure(n)) > 0
    /\ idx \in 0..(Len(Structure(n)) - 1)
    /\ IF n.inModalMode
       THEN \/ direction = "up" /\ idx = 0 /\ col = 0
            \/ /\ direction = "down"
               /\ idx = Len(n.zones) - 1
               /\ col = Len(n.zones[idx + 1].elements) - 1
            \/ /\ n.zones[idx + 1].layout = "horizontal"
               /\ \/ direction = "left" /\ col = 0
                  \/ direction = "right" /\ col = Len(n.zones[idx + 1].elements) - 1
       ELSE \/ direction = "up" /\ idx = 0
            \/ direction = "down" /\ idx = Len(n.rows) - 1
            \/ direction = "left" /\ col = 0
            \/ direction = "right" /\ col = Len(n.rows[idx + 1]) - 1

\* the latest call is a navigate made from a boundary position of the
\* structure it discovered, in the boundary direction
BoundaryCall ==
    /\ navPc = "ready"
    /\ log # << >>
    /\ Last(log).op = "navigate"
    /\ Boundary(nav, Last(log).fromIdx, Last(log).fromCol, Last(log).dir)

\* C2: a navigate call made from a boundary position in the boundary
\* direction returns success = true and moved = false and leaves the
\* row/zone index and the column index as they were.
C2_BoundaryReportsNotMoved ==
    BoundaryCall =>
        /\ Last(log).success /\ ~Last(log).moved /\ ~Last(log).threw
        /\ Last(log).toIdx = Last(log).fromIdx
        /\ Last(log).toCol = Last(log).fromCol
        /\ FocusIdx(nav) = Last(log).fromIdx
        /\ nav.currentCol = Last(log).fromCol

\* navigate(down) at the last element of the last zone of a modal that has
\* more than one zone
C2_Witness ==
    /\ BoundaryCall
    /\ nav.inModalMode /\ Len(nav.zones) > 1
    /\ Last(log).dir = "down"

ZoneScenario ==
    /\ page = PageModalScenario
    /\ navPc = "ready"
    /\ Len(log) >= 3
    /\ \A i \in 1..3 : log[i].op = "navigate" /\ log[i].dir = "down"
    /\ log[1].fromIdx = 0 /\ log[1].fromCol = 0

\* the number of calls among the three that changed the zone index
ZoneChanges == Cardinality({i \in 1..3 : log[i].fromIdx # log[i].toIdx})

\* C8, as stated: the three calls end in the episode zone at its first
\* element, the crossing step reports moved = true, the zone index changes
\* exactly once.
C8_AsStated ==
    ZoneScenario =>
        /\ log[3].toIdx = 1 /\ log[3].toCol = 0
        /\ \A i \in 1..3 : log[i].fromIdx # log[i].toIdx => log[i].moved
        /\ ZoneChanges = 1

\* C8, amended: the first call crosses into the episode zone and lands on
\* its first element with moved = true; the next two calls move inside the
\* zone, so the three calls end in the episode zone at index 2; the zone
\* index changes exactly once.
C8_ThreeDownsEndAtThirdEpisode ==
    ZoneScenario =>
        /\ log[1].toIdx = 1 /\ log[1].toCol = 0 /\ log[1].moved
        /\ log[2].toIdx = 1 /\ log[2].toCol = 1 /\ log[2].moved
        /\ log[3].toIdx = 1 /\ log[3].toCol = 2 /\ log[3].moved
        /\ nav.zones[1].layout = "horizontal" /\ Len(nav.zones[1].elements) = 3
        /\ nav.zones[2].layout = "vertical" /\ Len(nav.zones[2].elements) = 5
        /\ ZoneChanges = 1

C8_Witness == ZoneScenario /\ Len(nav.zones) = 2

(***************************************************************************)
(* Properties of the session vault                                         *)
(***************************************************************************)
\* the latest call is load_session(pin) with the PIN of the save the file
\* comes from, made before the expiry that save wrote
LoadOfSaved ==
    /\ authRes.op = "load_session"
    /\ saved # << >>
    /\ authRes.pin = << saved[1].pin >>
    /\ clock < saved[1].expiry

\* C4 as stated: after a successful save_session(pin), load_session(pin)
\* before the expiry returns True and passes to set_cookies exactly the
\* cookie list the save captured.
C4_AsStated ==
    LoadOfSaved =>
        /\ authRes.ret = "True"
        /\ authRes.passed = << saved[1].cookies >>

\* C4: after a successful save_session(pin), load_session(pin) before the
\* expiry passes to set_cookies exactly the cookie list the save captured,
\* and returns True when the browser accepts the cookies; when the
\* Network.setCookies request fails it returns False.
C4_RoundTrip ==
    LoadOfSaved =>
        /\ authRes.passed = << saved[1].cookies >>
        /\ authRes.ret = (IF authRes.browserOk THEN "True" ELSE "False")

C4_Witness ==
    /\ LoadOfSaved
    /\ clock > saved[1].at
    /\ authRes.ret = "True"
    /\ authRes.passed = << saved[1].cookies >>
    /\ Len(saved[1].cookies) > Len(REQUIRED_COOKIES)

\* C5: after save_session(p) has persisted a session, load_session(q) with
\* a PIN q other than p returns False.
C5_WrongPinFails ==
    ( /\ authRes.op = "load_session"
      /\ saved # << >>
      /\ authRes.pin # << >>
      /\ authRes.pin[1] # saved[1].pin )
    => authRes.ret = "False"

\* C6: load_session returns False, and sets no cookie, when the envelope
\* the PIN decrypts has an expiry timestamp earlier than the current time
\* or has no timestamp, even if its cookies pass validation.
C6_ExpiredEnvelopeFails ==
    ( /\ authRes.op = "load_session"
      /\ authRes.env # << >>
      /\ \/ authRes.env[1].timestamp = << >>
         \/ authRes.env[1].timestamp[1] < clock )
    => /\ authRes.ret = "False"
       /\ authRes.passed = << >>

C6_Witness ==
    /\ authRes.op = "load_session"
    /\ saved # << >>
    /\ authRes.pin = << saved[1].pin >>
    /\ authRes.env = << cookiesFile[1].plain >>
    /\ validate_cookies(saved[1].cookies)
    /\ saved[1].expiry < clock
    /\ authRes.browserOk
    /\ authRes.ret = "False"

\* C10: a save_session that finds the browser's cookies failing
\* validate_cookies raises ValueError, leaves the cookies file and the
\* remembered PIN as they were, and a session saved before loads as it did.
C10_FailedSaveKeepsSession ==
    [][ ( /\ authRes'.op = "save_session"
          /\ authRes'.ret # "Exception"
          /\ ~validate_cookies(browserCookies) )
        => /\ authRes'.ret = "ValueError"
           /\ cookiesFile' = cookiesFile
           /\ authPin' = authPin
           /\ saved' = saved
           /\ saved # << >> =>
                 load_session(cookiesFile', << saved[1].pin >>, authPin', clock', TRUE)
                 = load_session(cookiesFile, << saved[1].pin >>, authPin, clock, TRUE)
      ]_vars

C10_Witness ==
    /\ authRes.op = "save_session"
    /\ authRes.ret = "ValueError"
    /\ ~validate_cookies(browserCookies)
    /\ authRes.pin # << >>
    /\ authRes.pin # authPin
    /\ saved # << >>
    /\ authPin = << saved[1].pin >>
    /\ load_session(cookiesFile, << saved[1].pin >>, authPin, clock, TRUE).ret = "True"

\* the cases in which load_session has to refuse: no file, nothing the PIN
\* decrypts (env is what _load_encrypted_data gave), a required cookie
\* missing from the envelope, or an expiry that is missing or has passed
LoadMustFail(file, env, now) ==
    \/ file = << >>
    \/ env = << >>
    \/ LET cookies == IF env[1].data = << >> THEN << >> ELSE env[1].data[1]
       IN  \E name \in {"nfvdid", "SecureNetflixId", "NetflixId"} :
              \A i \in 1..Len(cookies) : cookies[i].name # name
    \/ env[1].timestamp = << >>
    \/ env[1].timestamp[1] < now

\* C11: a load_session on a missing, undecryptable, invalid or expired
\* session file returns False, calls set_cookies with nothing, and leaves
\* the browser's cookies as they were.
C11_LoadFailsClosed ==
    [][ ( /\ authRes'.op = "load_session"
          /\ LoadMustFail(cookiesFile, authRes'.env, clock) )
        => /\ authRes'.ret = "False"
           /\ authRes'.passed = << >>
           /\ browserCookies' = browserCookies
      ]_vars

C11_Witness ==
    /\ authRes.op = "load_session"
    /\ saved # << >>
    /\ authRes.pin = << 1234 >>
    /\ saved[1].pin = RANDOM_PIN_MIN
    /\ authRes.env = << >>
    /\ authRes.ret = "False"
    /\ browserCookies = JarOther
    /\ saved[1].cookies = JarFull

(***************************************************************************)
(* Properties of validate_cookies                                          *)
(***************************************************************************)
\* C7: validate_cookies(cookies) is True exactly when each of nfvdid,
\* SecureNetflixId and NetflixId is the name of some cookie of the list,
\* in any order and with any other cookies.
C7_ValidateIffRequiredPresent ==
    fnPc = "done" =>
        ( fnOut[1] <=>
            \A name \in {"nfvdid", "SecureNetflixId", "NetflixId"} :
               \E i \in 1..Len(fnIn) : fnIn[i].name = name )

C7_Witness ==
    /\ fnPc = "done"
    /\ fnOut = << TRUE >>
    /\ Len(fnIn) = 4
    /\ fnIn[1].name = "None"
    /\ fnIn[2].name = "NetflixId"
    /\ fnIn[4].name = "nfvdid"

(***************************************************************************)
(* Properties of row grouping                                              *)
(***************************************************************************)
\* the grouping as stated: the first element opens the first row, a later
\* one opens a new row exactly when its y is more than the threshold away
\* from the y of the first element of the current row
RECURSIVE AnchorSweep(_, _, _, _)
AnchorSweep(items, acc, cur, thr10) ==
    IF items = << >>
    THEN IF cur = << >> THEN acc ELSE Append(acc, SortByX(cur))
    ELSE LET item == Head(items)
         IN  IF cur = << >>
             THEN AnchorSweep(Tail(items), acc, << item >>, thr10)
             ELSE IF 10 * Abs(item.y - cur[1].y) > thr10
             THEN AnchorSweep(Tail(items), Append(acc, SortByX(cur)), << item >>, thr10)
             ELSE AnchorSweep(Tail(items), acc, Append(cur, item), thr10)

RowSizes(rows) == [i \in 1..Len(rows) |-> Len(rows[i])]

\* C9: the rows are the sweep over the elements sorted by (y, x) in which
\* an element opens a new row exactly when its y differs from the y of the
\* first element of the current row by more than the threshold; for
\* y = {10, 12, 95, 98, 210} and a threshold of 50 the rows have sizes
\* 2, 2, 1.
C9_RowsFollowAnchorRule ==
    (navPc = "ready" /\ ~page.modal) =>
        /\ nav.rows = AnchorSweep(SortByYX(FilteredElements(page)), << >>, << >>,
                                  10 * Min(page.innerHeight \div 10, 80))
        /\ ( /\ page.innerHeight = 500
             /\ {page.nodes[i].top : i \in 1..Len(page.nodes)} = {10, 12, 95, 98, 210} )
           => RowSizes(nav.rows) = << 2, 2, 1 >>

(***************************************************************************)
(* Properties of the protocol connection                                   *)
(***************************************************************************)
\* C12: a ws_request that returns a result returns the result of a
\* response frame that carries the id it sent and no error; a frame with
\* its id and an error object makes it fail with the protocol error; no
\* other frame ends the call.
C12_OnlyMatchingResponse ==
    \A t \in Threads :
       LET c == cdp.calls[t]
       IN  (c.pc = "done" /\ c.kind = "request") =>
              /\ c.outcome \in {"result", "RuntimeError"} <=> c.got # << >>
              /\ c.got # << >> =>
                    /\ c.got[1].kind = "response"
                    /\ c.got[1].id = << c.req_id >>
                    /\ c.got[1].error <=> c.outcome = "RuntimeError"

C12_Witness ==
    \E t \in Threads :
       /\ cdp.calls[t].pc = "done"
       /\ cdp.calls[t].outcome = "result"
       /\ cdp.calls[t].req_id = 2
       /\ \E r \in cdp.pending : r.id = 1

\* C13: every ws_request that has been entered ends: with a result, with
\* the protocol error, or with TimeoutError, also while frames it does not
\* wait for keep arriving.
C13_RequestTerminates ==
    \A t \in Threads :
       (cdp.calls[t].kind = "request" /\ cdp.calls[t].pc \notin {"idle", "done"})
       ~> ( /\ cdp.calls[t].pc = "done"
            /\ cdp.calls[t].kind = "request"
            /\ cdp.calls[t].outcome \in {"result", "RuntimeError", "TimeoutError"} )

C13_Witness ==
    \E t \in Threads :
       /\ cdp.calls[t].pc = "done"
       /\ cdp.calls[t].kind = "request"
       /\ cdp.calls[t].outcome = "TimeoutError"
       /\ ~cdp.calls[t].robbed
       /\ \E r \in cdp.pending : r.id = cdp.calls[t].req_id /\ r.from = t
       /\ cdp.inbox # << >>

\* C14: no two ws_request calls send the same id.
C14_UniqueIds ==
    \A i, j \in 1..Len(cdp.sent) : i < j => cdp.sent[i] # cdp.sent[j]

\* C15: no caller times out after the response to its request was read and
\* dropped by another caller.
C15_NoLostResponse ==
    \A t \in Threads :
       ~(cdp.calls[t].outcome = "TimeoutError" /\ cdp.calls[t].robbed)

(***************************************************************************)
(* Properties of connect                                                   *)
(***************************************************************************)
\* C16: connect does not fail with the connection error once a poll has
\* listed a page target that has an endpoint URL, whatever else the
\* listing holds and in whatever order; a connect that returns has enabled
\* the three domains, and one that fails with the connection error has
\* opened no connection.
C16_ConnectsWhenTargetListed ==
    /\ conn.pc = "ConnectionError" => (~conn.seen /\ ~conn.ws)
    /\ conn.pc = "connected" => (conn.seen /\ conn.ws /\ conn.enabled = DOMAINS)

(***************************************************************************)
(* Properties of the shutdown sequence                                     *)
(***************************************************************************)
\* C17: the shutdown sequence of stop() runs at most once in a run of the
\* application, whatever the triggers, and no two triggers are inside
\* browser.close() at the same time
C17_ShutdownRunsOnce ==
    /\ app.stops <= 1
    /\ Cardinality(app.closing) <= 1

\* C18: once the browser process has ended by itself after launch, the
\* shutdown event gets set, the connection and the process handle get torn
\* down and start() has returned
C18_BrowserExitLeadsToShutdown ==
    app.exited
      ~> (/\ app.shutdown_event
          /\ ~app.ws /\ ~app.process
          /\ app.main \in {"finally", "exit"})

\* the browser ended by itself while start() waited, the monitor thread ran
\* the shutdown and run() has returned
C18_Witness ==
    /\ app.exited /\ app.signals = 0
    /\ app.monitor = "stop" /\ app.stop["monitor"] = "done"
    /\ app.shutdown_event /\ ~app.ws /\ ~app.process
    /\ app.main = "exit"

(***************************************************************************)
(* Properties of NavigationState                                           *)
(***************************************************************************)
\* C19: at most one operation that mutates the shared NavigationState is in
\* progress at any time: an operation of the API server thread never
\* interleaves with the fallback discovery of the main thread
C19_OneMutationInFlight ==
    Cardinality({t \in Threads : legacy.ops[t].pc # "idle"}) <= 1

(***************************************************************************)
(* Properties of the in-page agent on an empty structure                   *)
(***************************************************************************)
\* the last discovery found no element and the page still gives none
EmptyStructure ==
    /\ navPc = "ready"
    /\ elements(nav) = << >>
    /\ elements(discover(nav, page)) = << >>

\* the focus indices of a and b agree
SameFocus(a, b) ==
    /\ FocusIdx(a) = FocusIdx(b)
    /\ a.currentRow = b.currentRow
    /\ a.currentCol = b.currentCol

\* the call gave success = false with a message, did not throw and left the
\* focus indices of n
FailsSoftly(r, n) ==
    /\ ~r.res.success /\ ~r.res.threw
    /\ r.res.message # ""
    /\ SameFocus(r.nav, n)

\* C20: when the last discovery found no element, discover() returns
\* success = true with elementCount 0, navigate(d) and select() return
\* success = false with a message, none throws and the focus indices stay
\* as they are
C20_EmptyStructureFailsSoftly ==
    EmptyStructure =>
        /\ discoverResult(discover(nav, page)).success
        /\ discoverResult(discover(nav, page)).elementCount = 0
        /\ SameFocus(discover(nav, page), nav)
        /\ \A direction \in DirInputs :
             FailsSoftly(navigate(nav, page, direction), nav)
        /\ FailsSoftly(select(nav), nav)

\* navigate was called on an empty structure whose focus column is not 0,
\* and reported failure
C20_Witness ==
    /\ EmptyStructure
    /\ nav.currentCol > 0
    /\ log # << >>
    /\ log[1].op = "navigate" /\ ~log[1].success /\ log[1].elementCount = 0

(***************************************************************************)
(* Properties of navigate and discover on a structure that is not empty    *)
(***************************************************************************)
\* the agent is ready and a discovery pass on the page finds an element
NonEmptyStructure ==
    /\ navPc = "ready"
    /\ elements(discover(nav, page)) # << >>

\* C21: navigate called with a value that is not one of up, down, left,
\* right on a structure that is not empty returns success = false, does not
\* throw and leaves the focus indices where the call's discovery pass put
\* them, in row mode, in zone mode and while a dropdown zone is open
C21_InvalidDirectionFails ==
    NonEmptyStructure =>
        \A direction \in DirInputs \ Directions :
            LET r == navigate(nav, page, direction)
            IN  /\ ~r.res.success /\ ~r.res.threw
                /\ SameFocus(r.nav, discover(nav, page))

\* C22: after a discovery pass of any kind (row, zone, dropdown-only) from
\* any focus position, when the structure it built is not empty the row
\* index (zone index in modal mode) is an index of the row/zone list and
\* the column index is an index inside that row/zone
C22_DiscoverLeavesFocusInBounds ==
    NonEmptyStructure => InBounds(discover(nav, page))

\* the options of the open dropdown that have an area
VisibleOptions(p) ==
    SelectSeq(QueryAll(p, "option"), LAMBDA nd : nd.w > 0 /\ nd.h > 0)

\* the agent is ready on a modal whose dropdown is open with an option
DropdownWithOptions ==
    /\ navPc = "ready"
    /\ page.modal
    /\ page.dropdown = "visible"
    /\ Len(VisibleOptions(page)) > 0

\* the option index a dropdown move from index c among n options ends at
DropdownMove(c, n, direction) ==
    CASE direction = "up" -> IF c > 0 THEN c - 1 ELSE c
      [] direction = "down" -> IF c < n - 1 THEN c + 1 ELSE c
      [] OTHER -> c

\* C23: while a dropdown with at least one visible option is open, a
\* discovery pass gives exactly one zone, of type dropdown and vertical,
\* that holds the options only, and navigate succeeds for every direction:
\* up and down move the option index by one inside [0, n-1] without
\* wraparound, left and right leave it, whatever zone and column were
\* focused when the dropdown opened
C23_DropdownNavigation ==
    DropdownWithOptions =>
        LET d == discover(nav, page)
            n == Len(VisibleOptions(page))
        IN  /\ d.zones = << Zone("dropdown", Items(VisibleOptions(page)),
                                 "vertical") >>
            /\ \A direction \in Directions :
                 LET r == navigate(nav, page, direction)
                 IN  /\ r.res.success /\ ~r.res.threw
                     /\ r.nav.currentCol \in 0..(n - 1)
                     /\ r.nav.currentCol
                          = DropdownMove(d.currentCol, n, direction)
                     /\ r.res.moved = (r.nav.currentCol # d.currentCol)

\* the reference move of row mode on rows, from row r and column c
RowReference(rows, r, c, direction) ==
    CASE direction = "up" ->
           IF r > 0 THEN << r - 1, Min(c, Len(rows[r]) - 1) >> ELSE << r, c >>
      [] direction = "down" ->
           IF r # Len(rows) - 1 THEN << r + 1, Min(c, Len(rows[r + 2]) - 1) >>
           ELSE << r, c >>
      [] direction = "left" -> IF c > 0 THEN << r, c - 1 >> ELSE << r, c >>
      [] direction = "right" ->
           IF c # Len(rows[r + 1]) - 1 THEN << r, c + 1 >> ELSE << r, c >>

\* C24: in row mode, for every row structure that is not empty and every
\* in-bounds focus (r, c), navigate ends at the reference move: up and down
\* go to the neighbouring row with the column clamped to its length, left
\* and right go to the neighbouring column, nothing wraps around, and moved
\* is true exactly when the pair changed
C24_RowMoveEqualsReference ==
    NonEmptyStructure =>
        LET d == discover(nav, page)
        IN  (~d.inModalMode /\ InBounds(d)) =>
                \A direction \in Directions :
                    LET r == navigate(nav, page, direction)
                        ref == RowReference(d.rows, d.currentRow,
                                            d.currentCol, direction)
                    IN  /\ r.res.success /\ ~r.res.threw
                        /\ << r.nav.currentRow, r.nav.currentCol >> = ref
                        /\ r.res.moved
                             = (ref # << d.currentRow, d.currentCol >>)

\* a row-mode navigate went to a shorter neighbouring row and the column
\* was clamped
C24_Witness ==
    /\ navPc = "ready" /\ ~nav.inModalMode
    /\ log # << >>
    /\ Last(log).op = "navigate" /\ Last(log).dir \in {"up", "down"}
    /\ Last(log).moved
    /\ Last(log).toIdx # Last(log).fromIdx
    /\ Last(log).toCol < Last(log).fromCol

\* the reference move of zone mode on zones, from zone z and column c
ZoneReference(zones, z, c, direction) ==
    LET len(k) == Len(zones[k + 1].elements)
        vertical == zones[z + 1].layout = "vertical"
        first == (z = 0)
        last == (z = Len(zones) - 1)
    IN  CASE direction = "up" /\ vertical ->
               IF c > 0 THEN << z, c - 1 >>
               ELSE IF first THEN << z, c >> ELSE << z - 1, len(z - 1) - 1 >>
          [] direction = "down" /\ vertical ->
               IF c < len(z) - 1 THEN << z, c + 1 >>
               ELSE IF last THEN << z, c >> ELSE << z + 1, 0 >>
          [] direction \in {"left", "right"} /\ vertical -> << z, c >>
          [] direction = "up" /\ ~vertical ->
               IF first THEN << z, c >>
               ELSE << z - 1, Min(c, len(z - 1) - 1) >>
          [] direction = "down" /\ ~vertical ->
               IF last THEN << z, c >>
               ELSE << z + 1, Min(c, len(z + 1) - 1) >>
          [] direction = "left" /\ ~vertical ->
               IF c > 0 THEN << z, c - 1 >> ELSE << z, c >>
          [] direction = "right" /\ ~vertical ->
               IF c < len(z) - 1 THEN << z, c + 1 >> ELSE << z, c >>

\* C25: in zone mode, for every zone list that is not empty and every
\* in-bounds focus (z, c), navigate ends at the reference move: in a
\* vertical zone up and down move inside the zone and leave it at its edges
\* (up enters the previous zone at its last element, down the next zone at
\* element 0) while left and right change nothing; in a horizontal or
\* single zone left and right move inside the zone and up and down go to
\* the neighbouring zone with the column clamped to its length; at the
\* first and last zone the cross-zone move changes nothing
C25_ZoneMoveEqualsReference ==
    NonEmptyStructure =>
        LET d == discover(nav, page)
        IN  (d.inModalMode /\ InBounds(d)) =>
                \A direction \in Directions :
                    LET r == navigate(nav, page, direction)
                    IN  /\ r.res.success /\ ~r.res.threw
                        /\ << r.nav.currentZone, r.nav.currentCol >>
                             = ZoneReference(d.zones, d.currentZone,
                                             d.currentCol, direction)

\* a zone-mode navigate(up) left a vertical zone at its first element and
\* entered the zone before it at its last element, which is not element 0
C25_Witness ==
    /\ navPc = "ready" /\ nav.inModalMode
    /\ log # << >>
    /\ Last(log).op = "navigate" /\ Last(log).dir = "up"
    /\ Last(log).fromIdx < Len(nav.zones)
    /\ nav.zones[Last(log).fromIdx + 1].layout = "vertical"
    /\ Last(log).fromCol = 0
    /\ Last(log).toIdx = Last(log).fromIdx - 1
    /\ Last(log).toCol > 0

(***************************************************************************)
(* The focus a discovery pass lands on                                     *)
(***************************************************************************)
\* the row index (zone index when the pass is a modal pass) before the pass
PrevIdx == IF page.modal THEN nav.currentZone ELSE nav.currentRow

\* the pass on the page is the dropdown-only pass
DropdownOnly == page.modal /\ page.dropdown = "visible"
                    /\ Len(VisibleOptions(page)) > 0

\* prev when it is an index below count, else the largest index below count
ClampTo(prev, count) == IF prev < count THEN prev ELSE count - 1

\* prev when it is an index below count, else 0
ResetTo(prev, count) == IF prev < count THEN prev ELSE 0

\* C26 as stated: a discovery pass keeps a previous row/zone index and a
\* previous column index that are still valid in the rebuilt structure, and
\* moves one that is past the end to the largest valid index
C26_AsStated ==
    NonEmptyStructure =>
        LET d == discover(nav, page)
        IN  /\ FocusIdx(d) = ClampTo(PrevIdx, Len(Structure(d)))
            /\ d.currentCol
                 = ClampTo(nav.currentCol,
                           Len(Structure(d)[ClampTo(PrevIdx, Len(Structure(d))) + 1]))

\* C26: a row pass or a zone pass keeps a previous row/zone index that is
\* still valid in the rebuilt structure and sets one that is past the end
\* to 0, then keeps a previous column index that is valid in the row/zone
\* landed on and sets one that is past its end to 0; the dropdown-only pass
\* leaves both indices as they were
C26_DiscoverResetsFocus ==
    NonEmptyStructure =>
        LET d == discover(nav, page)
        IN  IF DropdownOnly
            THEN FocusIdx(d) = PrevIdx /\ d.currentCol = nav.currentCol
            ELSE /\ FocusIdx(d) = ResetTo(PrevIdx, Len(Structure(d)))
                 /\ d.currentCol
                      = ResetTo(nav.currentCol,
                                Len(Structure(d)[FocusIdx(d) + 1]))

\* a row or zone pass is about to rebuild a structure in which the previous
\* row/zone index or column index is past the end and the largest valid
\* index is not 0
C26_Witness ==
    /\ NonEmptyStructure /\ ~DropdownOnly
    /\ LET s == Structure(discover(nav, page))
       IN  \/ Len(s) > 1 /\ PrevIdx >= Len(s)
           \/ /\ PrevIdx < Len(s)
              /\ Len(s[PrevIdx + 1]) > 1
              /\ nav.currentCol >= Len(s[PrevIdx + 1])

(***************************************************************************)
(* NavigationState called by one caller, one operation at a time, on a     *)
(* page that changes between the calls                                     *)
(***************************************************************************)
\* no operation is in progress
LegacyQuiet == \A t \in Threads : legacy.ops[t].pc = "idle"

\* discover_elements(browser) is called
DiscoverElements ==
    /\ LegacyQuiet
    /\ legacy' = [legacy EXCEPT
                    !.ops["api"] = [NoOp EXCEPT !.op = "discover_elements",
                                                !.pc = "detect"]]
    /\ LegacyFrame

\* navigate(direction) is called
NavigationStateNavigate(direction) ==
    /\ LegacyQuiet
    /\ legacy' = [legacy EXCEPT
                    !.ops["api"] = [NoOp EXCEPT !.op = "navigate",
                                                !.direction = direction,
                                                !.pc = "navigate"]]
    /\ LegacyFrame

\* reset_focus(): self.focus_row = 0; self.focus_col = 0
ResetFocus ==
    /\ LegacyQuiet
    /\ legacy' = [legacy EXCEPT !.focus_row = 0, !.focus_col = 0,
                                !.ops["api"] = [NoOp EXCEPT !.ret = "ok"]]
    /\ LegacyFrame

\* the page renders other content between two calls
PageChange(dom) ==
    /\ LegacyQuiet
    /\ dom # legacy.dom
    /\ legacy' = [legacy EXCEPT !.dom = dom]
    /\ LegacyFrame

FocusNext ==
    \/ DiscoverElements
    \/ \E direction \in LegacyDirections : NavigationStateNavigate(direction)
    \/ ResetFocus
    \/ \E dom \in LegacyDoms : PageChange(dom)
    \/ OpStep("api")

FocusSpec == LegacyInit /\ [][FocusNext]_vars

\* C27: after any sequence of discover_elements, navigate and reset_focus
\* on NavigationState, with the page free to change between discoveries,
\* whenever rows is not empty focus_row is a key of rows and focus_col is
\* an index of rows[focus_row], and no row is empty
C27_LegacyFocusInBounds ==
    (LegacyQuiet /\ DOMAIN legacy.rows # {}) =>
        /\ legacy.focus_row \in DOMAIN legacy.rows
        /\ legacy.focus_col \in 0..(Len(legacy.rows[legacy.focus_row]) - 1)
        /\ \A r \in DOMAIN legacy.rows : Len(legacy.rows[r]) > 0

\* C28: every navigate command rebuilds the structure from the live DOM
\* before the direction is applied: a POST /control/legacy/navigate that
\* has reached NavigationState.navigate has run discover_elements in the
\* same request
C28_NavigateRebuildsFirst ==
    \A t \in Threads :
        (legacy.ops[t].op = "legacy_navigate"
            /\ legacy.ops[t].pc \in {"navigate", "move"})
        => legacy.ops[t].rebuilt

(***************************************************************************)
(* select() and its timers                                                 *)
(***************************************************************************)
SelectNext ==
    \/ AgentInit
    \/ \E p \in Pages : PageLoad(p)
    \/ \E direction \in Directions : Navigate(direction)
    \/ Select
    \/ ClickTimerFire
    \/ RediscoverFire
    \/ HideTimerFire

SelectSpec == NavInit /\ [][SelectNext]_vars

\* weak fairness of RediscoverFire, written out: the step is enabled
\* exactly when a 500 ms timer is pending in a ready agent, and it always
\* changes nav
RediscoverFair ==
    (<>[](navPc = "ready" /\ nav.discoverTimers > 0))
        => ([]<><<RediscoverFire>>_vars)

\* a pending timer of the page fires while its document lives
SelectFairSpec ==
    /\ SelectSpec
    /\ WF_vars(ClickTimerFire)
    /\ RediscoverFair

\* every successful select has one click pending or dispatched, every
\* click one discover pass pending or run
OneClickPerSelect ==
    /\ nav.selects = nav.clicks + Len(nav.clickTimers)
    /\ nav.clicks = nav.rediscovers + nav.discoverTimers

\* the click a timer of select has just dispatched went to the element
\* that was focused when select was called, and its discover is pending
ClickOnFocused ==
    (navPc = "ready" /\ log # << >> /\ Last(log).op = "click") =>
        /\ Last(log).clicked = Last(log).focused
        /\ Last(log).clicked # 0
        /\ nav.discoverTimers > 0

C30_HideTimerOnlyInPlayer ==
    (navPc = "ready" /\ nav.overlayHideTimeout)
        => (nav.inPlayerMode /\ ~nav.inModalMode)

(***************************************************************************)
(* The focus across a change of context                                    *)
(***************************************************************************)
\* a discovery pass on the page finds another context than the pass before
\* it: modal zones instead of rows or the reverse, the player instead of
\* another page or the reverse
ContextChanges ==
    /\ navPc = "ready"
    /\ LET d == discover(nav, page)
       IN  \/ d.inModalMode # nav.inModalMode
           \/ (~d.inModalMode /\ ~nav.inModalMode
                 /\ d.inPlayerMode # nav.inPlayerMode)

\* C31: a discovery pass that finds a context different from the one of
\* the previous pass leaves the focus at the neutral position, the first
\* row/zone and the first column
C31_ContextChangeResetsFocus ==
    ContextChanges =>
        /\ FocusIdx(discover(nav, page)) = 0
        /\ discover(nav, page).currentCol = 0

(***************************************************************************)
(* The mutation observer                                                   *)
(***************************************************************************)
\* C32: after init(), a DOM mutation that removes the element nodes of the
\* structure is followed by a discover() pass without a caller command:
\* while the agent still holds elements of a page that has no node left,
\* the debounce timer of the observer is pending
C32_RemovalArmsDebounce ==
    (navPc = "ready" /\ elements(nav) # << >> /\ page.nodes = << >>)
        => discoverTimeout

(***************************************************************************)
(* BrowserManager.navigate: the Page.navigate command, then the wait for   *)
(* the load event, by the one thread that calls it                         *)
(***************************************************************************)
\* result = self.ws_request("Page.navigate", {"url": url}): the call is
\* entered
PageNavigate(t) ==
    /\ cdp.calls[t].pc = "idle"
    /\ RequestCall(t)

\* the command has given its result (without errorText) and wait_for_load
\* is set: self.ws_wait_event("Page.loadEventFired", timeout=timeout) is
\* entered.  The wait is modelled with the deadline of REQUEST_TIMEOUT.
NavigateWait(t) ==
    /\ cdp.calls[t].pc = "done"
    /\ cdp.calls[t].kind = "request"
    /\ cdp.calls[t].outcome = "result"
    /\ WaitEventCall(t)

\* the browser emits the load event of a navigation: after the command of
\* thread t was sent, before or after it answers the command, and while
\* navigate has not returned
LoadEvent(t) ==
    /\ t \notin cdp.loadSent
    /\ \/ /\ cdp.calls[t].kind = "request"
          /\ \/ cdp.calls[t].pc = "recv"
             \/ cdp.calls[t].pc = "done" /\ cdp.calls[t].outcome = "result"
       \/ cdp.calls[t].kind = "event" /\ cdp.calls[t].pc = "recv"
    /\ Len(cdp.inbox) < MaxInbox
    /\ cdp' = [cdp EXCEPT
                 !.inbox = Append(@, Event("Page.loadEventFired")),
                 !.loadSent = @ \cup {t}]
    /\ SysFrame

LoadNext ==
    \/ PageNavigate("main")
    \/ NavigateWait("main")
    \/ CallStep("main")
    \/ \E r \in cdp.pending, error \in BOOLEAN : Respond(r, error)
    \/ LoadEvent("main")
    \/ CdpTick

LoadSpec == CdpInit /\ [][LoadNext]_vars

\* C33: navigate(url, wait_for_load=True) observes the load event that the
\* browser emits after the Page.navigate command, also when the frame of
\* the event arrives before the response is read: the wait of a navigate
\* whose load event was emitted does not end by its timeout
C33_NavigateObservesLoadEvent ==
    \A t \in Threads :
        (/\ cdp.calls[t].kind = "event"
         /\ cdp.calls[t].pc = "done"
         /\ cdp.calls[t].outcome = "TimeoutError")
            => t \notin cdp.loadSent

(***************************************************************************)
(* The PIN of a load, and the expiry of a save                             *)
(***************************************************************************)
\* C37: load_session called without a PIN returns False in every state of
\* the AuthManager, also after a save_session, set_pin or load_session of
\* the same process: no remembered PIN is used in its place
C37_LoadWithoutPinFails ==
    (authRes.op = "load_session" /\ authRes.pin = << >>)
        => authRes.ret = "False"

\* C38: the expiry save_session writes is the epoch time of the save plus
\* thirty days, for every UTC offset of the host clock
C38_ExpiryIsSavePlusThirtyDays ==
    (authRes.op = "save_session" /\ authRes.ret = "Pin")
        => saved[1].expiry = clock + THIRTY_DAYS

(***************************************************************************)
(* The auto-hide of the focus indicator                                    *)
(***************************************************************************)
\* the focus indices of the row structure name an element, and the
\* indicator is hidden: in player mode, the state the hide timer leaves
HiddenOnElement ==
    /\ navPc = "ready"
    /\ nav.inPlayerMode
    /\ ~nav.inModalMode
    /\ ~nav.overlayShown
    /\ nav.currentRow < Len(nav.rows)
    /\ nav.currentCol < Len(nav.rows[nav.currentRow + 1])

\* C40: the auto-hide of the overlay changes only its visibility: after
\* the hide timer has fired in player mode, select() succeeds and clicks
\* the element at the focus indices
C40_SelectAfterAutoHide ==
    HiddenOnElement =>
        LET r == select(nav)
        IN  /\ r.res.success
            /\ r.nav.clickTimers # << >>
            /\ Last(r.nav.clickTimers).elementToClick =
                   nav.rows[nav.currentRow + 1][nav.currentCol + 1].element

(***************************************************************************)
(* The fallback of _inject_navigation                                      *)
(***************************************************************************)
\* C36: whenever installing the in-page agent fails, because the script
\* evaluation raises or because it returns a result that does not report
\* success, _inject_navigation calls NavigationState.discover_elements
C36_InjectFailureFallsBack ==
    legacy.inject \in {"raised", "no_success"} => legacy.fallback

(***************************************************************************)
(* NetflixControl._handle_auth and AuthManager.wait_for_login.  A URL is   *)
(* the set of the path fragments it contains; time is in seconds.          *)
(***************************************************************************)
LOGIN_TIMEOUT == 300

\* the URLs the browser reports
Urls == SUBSET {"/browse", "/login"}

\* what get_current_url gives: << >> when it raises, << url >> otherwise
UrlQueries == {<< >>} \cup {<< url >> : url \in Urls}

\* the seconds a URL query takes: answered at once, or after the timeout
\* of ws_request
QueryCosts == {0, REQUEST_TIMEOUT}

\* the cookies files _handle_auth starts with: a session saved under 1234
\* that has not expired, and text that is no session
FlowFiles ==
    { Cipher(DeriveKey(1234), Envelope(<< StartClock + THIRTY_DAYS >>, << JarFull >>)),
      Garbage }

\* the argument pin of start()
FlowPins == {<< >>, << 7 >>, << 1234 >>}

\* "/browse" in url and "/login" not in url, without the second test
LoggedInUrl_BrowseOnly(url) == "/browse" \in url

\* "/browse" in url and "/login" not in url
LoggedInUrl(url) == "/browse" \in url /\ "/login" \notin url

\* self.auth.has_stored_session() and pin is not None, without the test of
\* the pin
ShouldLoad_StoredOnly(stored, pin) == stored

\* self.auth.has_stored_session() and pin is not None
ShouldLoad(stored, pin) == stored /\ pin # << >>

\* one turn of the loop of wait_for_login(timeout) on the flow f: the test
\* of the deadline, time.sleep(1), the URL query q that takes cost seconds,
\* and time.sleep(2) before True is returned; an exception of the query is
\* passed over
wait_for_login(f, timeout, q, cost) ==
    LET polled == [f EXCEPT !.answered = @ \/ q # << >>,
                            !.sawBrowse = @ \/ q = << {"/browse"} >>]
    IN  IF ~(f.elapsed < timeout)
        THEN [f EXCEPT !.ret = "False"]
        ELSE IF q # << >> /\ LoggedInUrl(q[1])
        THEN [polled EXCEPT !.ret = "True", !.elapsed = @ + 1 + cost + 2]
        ELSE [polled EXCEPT !.elapsed = @ + 1 + cost]

FlowFrame == UNCHANGED << navVars, fnVars, cdp, conn, legacy >>

\* _handle_auth returns to start()
FlowReturns(a, f) == [a EXCEPT !.main = "api", !.flow = [f EXCEPT !.pc = "done"]]

\* an exception leaves _handle_auth, and start() with it
FlowRaises(a, f) == [Raise(a) EXCEPT !.flow = [f EXCEPT !.pc = "raised"]]

\* if self.auth.has_stored_session() and pin is not None
CheckStored ==
    /\ app.flow.pc = "start"
    /\ app' = [app EXCEPT !.flow.pc =
                 IF ShouldLoad(cookiesFile # << >>, app.flow.pin)
                 THEN "load" ELSE "browse"]
    /\ UNCHANGED authVars
    /\ FlowFrame

\* self.auth.set_pin(pin); if self.auth.load_session(pin)
LoadStored(browserOk) ==
    /\ app.flow.pc = "load"
    /\ authPin' = app.flow.pin
    /\ LoadEffect("load_session", app.flow.pin, app.flow.pin, browserOk)
    /\ LET r == load_session(cookiesFile, app.flow.pin, app.flow.pin, clock,
                             browserOk)
       IN  app' = [app EXCEPT !.flow.loadTried = TRUE,
                              !.flow.loaded = (r.ret = "True"),
                              !.flow.pc = IF r.ret = "True" THEN "to_browse"
                                          ELSE "browse"]
    /\ UNCHANGED << cookiesFile, clock, utcOffset, ticks, saved >>
    /\ FlowFrame

\* self.auth.navigate_to_browse(); return
NavigateToBrowse(raises) ==
    /\ app.flow.pc = "to_browse"
    /\ app' = IF raises THEN FlowRaises(app, app.flow)
              ELSE FlowReturns(app, app.flow)
    /\ UNCHANGED authVars
    /\ FlowFrame

\* self.browser.navigate(config.netflix_browse_url) in its try clause, and
\* time.sleep(2)
NavigateBrowse ==
    /\ app.flow.pc = "browse"
    /\ app' = [app EXCEPT !.flow.pc = "check"]
    /\ clock' = clock + 2
    /\ UNCHANGED << authPin, cookiesFile, browserCookies, utcOffset, ticks,
                    saved, authRes >>
    /\ FlowFrame

\* current_url = self.browser.get_current_url(); if
\* self.auth.is_logged_in(): the URL query raises or gives q
CheckLoggedIn(q) ==
    /\ app.flow.pc = "check"
    /\ app' = IF q = << >> THEN FlowRaises(app, app.flow)
              ELSE IF LoggedInUrl(q[1])
              THEN [app EXCEPT !.flow.loggedIn = "True",
                               !.flow.pc = "inject_profile"]
              ELSE [app EXCEPT !.flow.loggedIn = "False",
                               !.flow.pc = "login"]
    /\ UNCHANGED authVars
    /\ FlowFrame

\* self._inject_navigation() inside _handle_auth: after is_logged_in, then
\* return; after the login, then the save.  raises: its fallback raises.
InjectInFlow(raises) ==
    /\ app.flow.pc \in {"inject_profile", "inject_login"}
    /\ app' = IF raises THEN FlowRaises(app, app.flow)
              ELSE IF app.flow.pc = "inject_profile"
              THEN FlowReturns(app, app.flow)
              ELSE [app EXCEPT !.flow.pc = "save"]
    /\ UNCHANGED authVars
    /\ FlowFrame

\* self.auth.initiate_login(), and wait_for_login(timeout=300) is entered:
\* start_time = time.time()
InitiateLogin(raises) ==
    /\ app.flow.pc = "login"
    /\ app' = IF raises THEN FlowRaises(app, app.flow)
              ELSE [app EXCEPT !.flow.loginNav = TRUE, !.flow.pc = "wait",
                               !.flow.elapsed = 0]
    /\ UNCHANGED authVars
    /\ FlowFrame

\* a turn of the loop of wait_for_login; True is followed by time.sleep(2)
\* and _inject_navigation, False by the message and the return
WaitTurn(q, cost) ==
    /\ app.flow.pc = "wait"
    /\ LET f == wait_for_login(app.flow, LOGIN_TIMEOUT, q, cost)
       IN  /\ app' = IF f.ret = "True"
                     THEN [app EXCEPT !.flow = [f EXCEPT !.pc = "inject_login"]]
                     ELSE IF f.ret = "False" THEN FlowReturns(app, f)
                     ELSE [app EXCEPT !.flow = f]
           /\ clock' = clock + (f.elapsed - app.flow.elapsed)
    /\ UNCHANGED << authPin, cookiesFile, browserCookies, utcOffset, ticks,
                    saved, authRes >>
    /\ FlowFrame

\* pin = self.auth.save_session() in its try clause
SaveAfterLogin(rnd, browserOk) ==
    /\ app.flow.pc = "save"
    /\ SaveEffect("save_session", << >>, rnd, browserOk)
    /\ app' = FlowReturns(app, [app.flow EXCEPT !.saveTried = TRUE])
    /\ UNCHANGED << browserCookies, clock, utcOffset, ticks >>
    /\ FlowFrame

\* the steps of start() after _handle_auth
AfterAuth ==
    \/ StartApiServer
    \/ InjectNavigation

FlowInit ==
    /\ NavIdle /\ FnIdle
    /\ cdp = BrowserManager /\ conn = NotConnecting /\ legacy = NavigationState
    /\ authPin = << >>
    /\ cookiesFile \in {<< >>} \cup {<< content >> : content \in FlowFiles}
    /\ browserCookies \in {<< >>, JarFull}
    /\ clock = StartClock /\ utcOffset = 0 /\ ticks = 0
    /\ saved = << >> /\ authRes = NoRes
    /\ \E pin \in FlowPins :
         app = [NetflixControl EXCEPT !.main = "auth", !.handlers = TRUE,
                                      !.process = TRUE, !.alive = TRUE,
                                      !.ws = TRUE,
                                      !.flow = [NoFlow EXCEPT !.pc = "start",
                                                              !.pin = pin]]

FlowNext ==
    \/ CheckStored
    \/ \E browserOk \in BOOLEAN : LoadStored(browserOk)
    \/ \E raises \in BOOLEAN : NavigateToBrowse(raises)
    \/ NavigateBrowse
    \/ \E q \in UrlQueries : CheckLoggedIn(q)
    \/ \E raises \in BOOLEAN : InjectInFlow(raises)
    \/ \E raises \in BOOLEAN : InitiateLogin(raises)
    \/ \E q \in UrlQueries, cost \in QueryCosts : WaitTurn(q, cost)
    \/ \E rnd \in RandomPins, browserOk \in BOOLEAN : SaveAfterLogin(rnd, browserOk)
    \/ AfterAuth

FlowSpec == FlowInit /\ [][FlowNext]_vars

\* the main thread runs: the loop of wait_for_login makes its turns
FlowFairSpec ==
    /\ FlowSpec
    /\ WF_vars(\E q \in UrlQueries, cost \in QueryCosts : WaitTurn(q, cost))

\* C34: wait_for_login(timeout) always terminates and never raises; it
\* returns True only if one of its polls saw a URL that contains /browse
\* and not /login, and False once the timeout has elapsed otherwise, also
\* when every URL query raised; after False, start() goes on to the API
\* server and the navigation
C34_WaitForLoginEnds ==
    /\ [](app.flow.ret = "True" => app.flow.sawBrowse)
    /\ [](app.flow.ret = "False" =>
            /\ ~app.flow.sawBrowse
            /\ app.flow.elapsed >= LOGIN_TIMEOUT
            /\ app.flow.pc = "done"
            /\ app.main \in {"api", "inject", "monitor"})
    /\ []((app.flow.pc = "raised" /\ app.flow.loginNav) => app.flow.ret = "True")
    /\ (app.flow.pc = "wait") ~> (app.flow.pc # "wait")

\* the wait ended by its timeout with no URL query answered, and start()
\* went on to start the API server and the navigation
C34_Witness ==
    /\ app.flow.ret = "False"
    /\ ~app.flow.answered
    /\ app.flow.elapsed >= LOGIN_TIMEOUT
    /\ app.main = "monitor"

\* C35: a stored-session load is attempted exactly when a stored session
\* exists and a PIN was given; a load that succeeds ends the flow without
\* a navigation to the login URL and without a save; the manual login is
\* entered only when no session was loaded and is_logged_in gave False;
\* save_session is attempted only after a wait_for_login that returned
\* True
C35_AuthFlow ==
    /\ (app.flow.pc \notin {"idle", "start"} /\ ~app.flow.saveTried) =>
          ((app.flow.loadTried \/ app.flow.pc = "load")
              <=> (cookiesFile # << >> /\ app.flow.pin # << >>))
    /\ app.flow.loaded =>
          /\ ~app.flow.loginNav /\ ~app.flow.saveTried
          /\ app.flow.loggedIn = "none" /\ app.flow.ret = "none"
          /\ app.flow.pc \in {"to_browse", "done", "raised"}
    /\ (app.flow.loginNav \/ app.flow.pc = "login") =>
          /\ ~app.flow.loaded
          /\ app.flow.loggedIn = "False"
    /\ (app.flow.saveTried \/ app.flow.pc = "save") =>
          /\ app.flow.loginNav
          /\ app.flow.ret = "True"

\* the stored session was loaded with the PIN given and _handle_auth has
\* returned
C35_Witness ==
    /\ app.flow.loaded
    /\ app.flow.pc = "done"
    /\ authRes.op = "load_session" /\ authRes.ret = "True"
    /\ ~app.flow.loginNav /\ ~app.flow.saveTried

(***************************************************************************)
(* The two forms of the navigation engine on one row structure             *)
(***************************************************************************)
\* the focus of NavigationState is on an element of a structure that is
\* not empty
LegacyOnElement(L) ==
    /\ DOMAIN L.rows # {}
    /\ \A r \in DOMAIN L.rows : Len(L.rows[r]) > 0
    /\ L.focus_row \in DOMAIN L.rows
    /\ L.focus_col \in 0..(Len(L.rows[L.focus_row]) - 1)

\* the in-page agent on the row structure and the focus of NavigationState:
\* row k of the agent is the k-th key of rows
AsAgent(L) ==
    LET keys == Sorted(DOMAIN L.rows)
    IN  [NetflixNav EXCEPT
           !.rows = [k \in 1..Len(keys) |->
                       [i \in 1..Len(L.rows[keys[k]]) |->
                          [x |-> i, y |-> k, element |-> 10 * k + i]]],
           !.currentRow = IndexOf(DOMAIN L.rows, L.focus_row),
           !.currentCol = L.focus_col]

\* what NavigationState.navigate(direction) returns: << >> is None
LegacyReturn(L, direction) ==
    LET f == NavigateFocus(L, direction, DOMAIN L.rows)
    IN  IF FocusedElement(L.rows, f.focus_row, f.focus_col) = "element"
        THEN << L.rows[f.focus_row][f.focus_col + 1] >>
        ELSE << >>

\* navigate(direction) changes the focus of L
LegacyMoved(L, direction) ==
    LET f == NavigateFocus(L, direction, DOMAIN L.rows)
    IN  f.focus_row # L.focus_row \/ f.focus_col # L.focus_col

\* both forms end at the same (row, column)
PositionsAgree(L, direction) ==
    LET f == NavigateFocus(L, direction, DOMAIN L.rows)
        to == StandardMove(AsAgent(L), direction)
    IN  << IndexOf(DOMAIN L.rows, f.focus_row), f.focus_col >> = to

\* the focus positions inside the structure of L
PositionsOf(L) ==
    UNION {{[L EXCEPT !.focus_row = r, !.focus_col = c] :
               c \in 0..(Len(L.rows[r]) - 1)} : r \in DOMAIN L.rows}

\* C39: for every row structure, focus position inside it and direction,
\* NavigationState.navigate and navigateStandard end at the same (row,
\* column), and both show the caller whether the focus moved: the agent
\* in "moved", NavigationState in what it returns, so that a call at a
\* boundary returns something no call that moves returns
C39_FormsAgree ==
    (LegacyQuiet /\ LegacyOnElement(legacy)) =>
        \A direction \in LegacyDirections :
            /\ PositionsAgree(legacy, direction)
            /\ navigateStandard(AsAgent(legacy), direction).res.moved
                   = LegacyMoved(legacy, direction)
            /\ \A P \in PositionsOf(legacy), d \in LegacyDirections :
                   LegacyReturn(P, d) = LegacyReturn(legacy, direction)
                       => LegacyMoved(P, d) = LegacyMoved(legacy, direction)

====
